---- MODULE Spec2Model ----
(***************************************************************************)
(* A model of the OCI container lifecycle of knast                         *)
(* (libknast/src/operations.rs): the persistent process records, the       *)
(* container configuration, the host's jails, child processes, mount       *)
(* table and network allocations, and the callers of OciOperations, each   *)
(* advancing one storage access or system call at a time.                  *)
(***************************************************************************)
EXTENDS Integers, Sequences, FiniteSets, TLC

\* ------------------------------------------------------------------ bounds
\* Number of concurrent callers sharing one storage.
NumThreads == 2
\* Number of API calls made in one behaviour.
MaxOps == 2
\* Number of addresses of the managed subnet.
SubnetSize == 5
\* Number of concurrent callers of network::setup and network::teardown.
NumNetCallers == 3
\* Number of calls of network::setup and network::teardown in one behaviour.
MaxNetOps == 3
\* Length of the values handed to the storage.
MaxValueLen == 1
\* Number of concurrent callers of Fetcher::fetch.
NumFetchers == 2
\* Number of calls of Fetcher::fetch in one behaviour.
MaxFetchOps == 2
\* Length of the response bodies of the registry.
MaxBodyLen == 2
\* Number of pulls of a blob in one behaviour.
MaxPulls == 2
\* Number of manifests of a manifest index.
MaxIndexLen == 2
\* Number of layers of an image, and of entries of a layer.
MaxLayers == 2
MaxEntries == 2
\* Length of the user string of an image config.
MaxUserLen == 4
\* Width in bits of a uid or gid (32 in the code, u32).
IdBits == 4
\* Length of the destination of a mount.
MaxPathLen == 4
\* Longest entry of process.env, and the most entries of it.
MaxEntryLen == 5
MaxEnvEntries == 2
\* The progress updates of one layer.
MaxUpdates == 2
\* The buffer of the channel of the documented example (fetcher.rs:75).
Buffer == 1

Threads == 1..NumThreads

\* ------------------------------------------------------------- constants
Containers == {"c1"}
MAIN_PROCESS_EXEC_ID == ""
ExecIds == {MAIN_PROCESS_EXEC_ID, "e1"}
\* Bundle directories handed to create; "bad" has no readable config.json.
Bundles == {"bad", "b1", "b2"}
Signals == {"SIGTERM", "SIGBUS"}
ProcessStatus == {"Created", "Starting", "Running", "Stopped"}

\* The mounts declared by the config.json of a bundle, in declaration order.
BundleMounts(b) == IF b = "b1" THEN <<"dev", "proc">> ELSE <<"dev">>

VARIABLES
    container_config,     \* CONTAINER_CONFIG: key -> Option<RuntimeConfig>
    container_processes,  \* CONTAINER_PROCESSES: <<key, exec_id>> -> Option<OciStatus>
    jails,                \* host: jail name -> Option<[jid, persist]>
    jidCount,             \* host: number of jails started so far
    children,             \* host: child processes of the runtime, indexed by pid
    mounted,              \* host: mount table under the rootfs of each container
    network,              \* NETWORK_STATE: does the container have an address record
    thr,                  \* the callers: operation, position and locals
    ops,                  \* number of API calls made so far
    created,              \* history: create succeeded for the id, no delete since
    network_heap,         \* NETWORK_STATE["172.24.0.0/16"]: Option<BinaryHeap<Ipv4Addr>>
    container_address,    \* NETWORK_STATE["CONTAINER_ADDRESS"]: Option<ContainerAddressStorage>
    bridge,               \* host: the address of the bridge knast0, if it exists
    interfaces,           \* host: the units of the existing epair interfaces
    nthr,                 \* the callers of network::setup and network::teardown
    nops,                 \* number of network calls made so far
    kv,                   \* Storage: the bytes stored under one key of one collection
    cas,                  \* the last call of Storage::compare_and_swap and its result
    images,               \* IMAGES_INDEX: "<image_name>:<tag>" -> Option<digest>
    blobs,                \* BLOBS: the digests a blob is stored under
    fthr,                 \* the callers of Fetcher::fetch
    fops,                 \* number of calls of fetch made so far
    rd,                   \* one pull of a blob: the response read and its progress
    ix,                   \* one resolution of a tag through a manifest index
    unp,                  \* one unpacking of the layers of an image
    usr,                  \* one parsing of the user of an image config
    pth,                  \* one computation of a mount destination
    dev,                  \* one mount of a devfs and its rules
    env,                  \* one decoding of the env of a process to spawn
    chan                  \* one fetch joined with the collector of its updates

lifecycle == <<container_config, container_processes, jails, jidCount,
               children, mounted, network, thr, ops, created>>

net_state == <<network_heap, container_address, bridge, interfaces, nthr, nops>>

\* The state of the subsystems the container lifecycle leaves alone.
cas_state == <<kv, cas>>

fetch_state == <<images, blobs, fthr, fops>>

\* The state of the helpers, each a record of one call.
util_state == <<rd, ix, unp, usr, pth, dev, env, chan>>

\* What each helper leaves alone.
pull_frame ==
    <<lifecycle, net_state, cas_state, images, fthr, fops, ix, unp, usr, pth, dev,
      env, chan>>
ix_frame ==
    <<lifecycle, net_state, cas_state, blobs, fthr, fops, rd, unp, usr, pth, dev,
      env, chan>>
unp_frame ==
    <<lifecycle, net_state, cas_state, fetch_state, rd, ix, usr, pth, dev, env,
      chan>>
usr_frame ==
    <<lifecycle, net_state, cas_state, fetch_state, rd, ix, unp, pth, dev, env,
      chan>>
pth_frame ==
    <<lifecycle, net_state, cas_state, fetch_state, rd, ix, unp, usr, dev, env,
      chan>>
dev_frame ==
    <<lifecycle, net_state, cas_state, fetch_state, rd, ix, unp, usr, pth, env,
      chan>>
env_frame ==
    <<lifecycle, net_state, cas_state, fetch_state, rd, ix, unp, usr, pth, dev,
      chan>>
chan_frame ==
    <<lifecycle, net_state, cas_state, fetch_state, rd, ix, unp, usr, pth, dev,
      env>>

rest == <<net_state, cas_state, fetch_state, util_state>>

vars == <<lifecycle, rest>>

host == <<jails, jidCount, children, mounted, network>>

ProcessKeys == Containers \X ExecIds

\* OciOperations::process_id
process_id(key, exec_id) == <<key, exec_id>>

\* The record written by OciOperations::new_process.
NewOciStatus == [status |-> "Created", pid |-> 0, jid |-> 0, exit_status |-> {}]

IdleThread ==
    [op |-> "none", pc |-> "idle", key |-> "c1", exec_id |-> "", arg |-> "",
     rec |-> {}, jail |-> {}, child |-> {}, list |-> <<>>, exit |-> {},
     res |-> "none", out |-> "none", spawned |-> FALSE, signalled |-> FALSE,
     wrote |-> FALSE, seen |-> "none", trail |-> <<>>, failed |-> <<>>]
\* res: what the call returned; out: the status state reported, or how
\* cleanup ended; seen: the stored status the call decided on ("unstarted"
\* when state or delete finds no main record of a created container,
\* "in_use" when create is called on a created container); spawned,
\* signalled, wrote: the call spawned a process, delivered a signal,
\* changed the storage or the host; trail: the steps of create or cleanup
\* the call has executed, in order; failed: the step that has failed.

\* ------------------------------------------------------------ the network
NetCallers == 1..NumNetCallers

\* The addresses of DEFAULT_NETWORK, as offsets from its network address.
Subnet == 0..(SubnetSize - 1)

\* netzwerk::range::broadcast: the last address of the network.
broadcast == SubnetSize - 1

\* 255.255.255.255, the one address Ipv4Addr::is_broadcast accepts; it is
\* no address of the subnet.
LimitedBroadcast == -1

\* Ipv4Addr::is_broadcast as get_address uses it (network.rs:123).
is_broadcast(address) == address = LimitedBroadcast

\* The containers network::setup and network::teardown are called for.
NetKeys == {"c1", "c2"}

\* A BinaryHeap<Ipv4Addr> is a multiset of addresses: address -> count.
\* netzwerk::range::range: every address of the network, once.
ip_range == [a \in Subnet |-> 1]

HeapLen(heap) == LET RECURSIVE Sum(_)
                     Sum(a) == IF a < 0 THEN 0 ELSE heap[a] + Sum(a - 1)
                 IN Sum(SubnetSize - 1)

\* BinaryHeap::peek: the greatest address of a heap that is not empty.
HeapMax(heap) ==
    CHOOSE a \in Subnet : heap[a] > 0 /\ \A b \in Subnet : b > a => heap[b] = 0

\* BinaryHeap::pop and BinaryHeap::push.
HeapPop(heap) == [heap EXCEPT ![HeapMax(heap)] = @ - 1]

HeapPush(heap, a) == [heap EXCEPT ![a] = @ + 1]

\* BTreeMap::new(): no container has an address record.
EmptyCache == [k \in NetKeys |-> {}]

NetIdleThread ==
    [op |-> "none", pc |-> "idle", key |-> "c1", heap |-> {}, cache |-> {},
     address |-> {}, host |-> {}, container |-> {}, iface |-> {}, ret |-> "",
     res |-> "", got |-> {}, pushed |-> <<>>, conflict |-> "",
     set_up |-> FALSE]
\* heap, cache: the values read from the storage; address: the address
\* get_address returned or free_address is given; ret: where the call of
\* get_address or free_address returns to; got: the addresses get_address
\* returned to this call; pushed: the addresses this call pushed onto the
\* heap; conflict: the function whose compare-and-swap conflict the call
\* returned; set_up: the caller has called setup in this behaviour.

\* No network was ever set up: NETWORK_STATE is empty, no bridge.
NetFresh ==
    /\ network_heap = {}
    /\ container_address = {}
    /\ bridge = {}
    /\ interfaces = {}
    /\ nthr = [t \in NetCallers |-> NetIdleThread]
    /\ nops = 0

\* The state after network::setup of container c1 on a fresh host: the
\* bridge has the first address popped, the pair epair0 the next two.
NetSetUp ==
    /\ network_heap =
           {[a \in Subnet |-> IF a < SubnetSize - 3 THEN 1 ELSE 0]}
    /\ container_address =
           {[EmptyCache EXCEPT !["c1"] =
                {[iface |-> 0, host |-> SubnetSize - 2,
                  container |-> SubnetSize - 3]}]}
    /\ bridge = {SubnetSize - 1}
    /\ interfaces = {0}
    /\ nthr = [t \in NetCallers |-> NetIdleThread]
    /\ nops = 0

\* ------------------------------------------------------------ the storage
\* The values of the Vec<u8> handed to the storage.
Bytes == {0, 1}

Values == UNION {[1..n -> Bytes] : n \in 0..MaxValueLen}

\* Option<S>: {} is None, {v} is Some(v).
Option(S) == {{}} \cup {{v} : v \in S}

\* bincode::serialize of a Vec<u8>: its length, then its bytes.
serialize(value) == <<Len(value)>> \o value

\* bincode::deserialize of a Vec<u8>: as many bytes as the length says.
deserialize(bytes) == SubSeq(bytes, 2, bytes[1] + 1)

\* The serialization of an Option<S> in Storage::compare_and_swap
\* (lib.rs:105-114).
serialize_option(value) == {serialize(v) : v \in value}

Engines == {"sled", "sqlite"}

\* No compare_and_swap was called yet.
CasIdle == [engine |-> "sled", old |-> {}, new |-> {}, before |-> {},
            res |-> "none", returned |-> {}]

CasFresh == kv = {} /\ cas = CasIdle

\* ------------------------------------------------------------ the fetcher
Fetchers == 1..NumFetchers

\* Image names as fetch is given them, in characters and words.
ImageNames == {<<"nginx">>, <<"library", "/", "nginx">>}

Tags == {"latest"}

\* normalize_image_name: names without a slash get the prefix "library/"
\* (fetcher.rs:239-243).
normalize_image_name(image) ==
    IF \E i \in 1..Len(image) : image[i] = "/"
    THEN image ELSE <<"library", "/">> \o image

\* format!("{}:{}", image_name, tag) (fetcher.rs:99).
cache_key(image, tag) == normalize_image_name(image) \o <<":", tag>>

CacheKeys == {cache_key(image, tag) : image \in ImageNames, tag \in Tags}

\* The manifests of the registry, by digest, with the digests of the config
\* and of the layers each references; the two share a layer.
ManifestDigests == {"m1", "m2"}

ManifestOf(digest) ==
    IF digest = "m1" THEN [config |-> "c1", layers |-> {"l1", "l2"}]
    ELSE [config |-> "c2", layers |-> {"l1", "l3"}]

FetchIdle ==
    [op |-> "none", pc |-> "idle", key |-> <<>>, digest |-> {}, todo |-> {},
     res |-> "", out |-> {}, requested |-> FALSE, wrote |-> FALSE,
     wrote_image |-> FALSE, failed |-> FALSE, cached |-> {}, quiet |-> FALSE]
\* digest: the manifest digest the tag resolved to; todo: the config and
\* layer pulls still running; requested: the call has sent the registry a
\* request;
\* wrote, wrote_image: the call has written to blobs or images, to images;
\* failed: a pull of the call has failed; cached: the entry of images at
\* the time of the call; quiet: no other fetch of the key was running then.

\* Nothing was ever fetched.
FetchFresh ==
    /\ images = [k \in CacheKeys |-> {}]
    /\ blobs = {}
    /\ fthr = [t \in Fetchers |-> FetchIdle]
    /\ fops = 0

\* ------------------------------------------------------- pulling one blob
\* The response bodies of the registry.
Bodies == UNION {[1..n -> Bytes] : n \in 0..MaxBodyLen}

\* hex::encode(digest::digest(&SHA256, body)) (reqwest_ext.rs:35-37): a
\* string of fixed length, different for different bodies.
hex_sha256(body) ==
    [i \in 1..(MaxBodyLen + 1) |->
        IF i > Len(body) THEN "f" ELSE IF body[i] = 0 THEN "0" ELSE "1"]

\* The digests a manifest index or a manifest names, as strings of
\* characters: with the algorithm prefix, and without it.
DigestStrings ==
    {prefix \o hex_sha256(body) :
        prefix \in {<<"s", "h", "a", "2", "5", "6", ":">>, <<>>},
        body \in Bodies}

\* kind: what is pulled (Manifest::pull, Config::pull, or fetch_layer with
\* Layer::pull); size: the size the manifest declares for a layer; body:
\* the body the registry answers with; agg: the bytes read so far;
\* updates: the LayerDownloadStatus values sent to the sink; cached: the
\* digest was in blobs when the pull started; n: pulls so far.
PullIdle ==
    [pc |-> "idle", kind |-> "", digest |-> <<>>, size |-> 0, body |-> <<>>,
     agg |-> 0, updates |-> <<>>, cached |-> FALSE, res |-> "", n |-> 0]

\* ------------------------------------------------- resolving a manifest
\* Platform of manifest_index.rs, reduced to the two fields compared.
Platforms == [architecture : {"amd64", "arm64"}, os : {"linux", "freebsd"}]

\* manifest_index::Manifest: a descriptor with its digest and an optional
\* platform; ManifestIndex.manifests is a Vec of them.
IndexManifests == [digest : ManifestDigests, platform : Option(Platforms)]
ManifestIndexes == UNION {[1..n -> IndexManifests] : n \in 0..MaxIndexLen}

\* index: the manifests of the index pulled; architecture, os: the target
\* of the Fetcher; out: the digest resolved.
ResolveIdle ==
    [pc |-> "idle", index |-> <<>>, architecture |-> "", os |-> {},
     out |-> {}, res |-> ""]

\* ---------------------------------------------------- unpacking an image
\* A file name in the pieces the unpacker tells apart: the whiteout prefix
\* ".wh." and what follows it. <<".wh.", ".wh.", ".opq">> is ".wh..wh..opq".
FileNames ==
    {<<"file">>, <<"keep">>, <<".wh.", "file">>, <<".wh.", ".wh.", ".opq">>}

\* The pathnames of archive entries, relative to the destination: the
\* directory "dir" and files in it.
EntryPaths == {<<<<"dir">>>>} \cup {<<<<"dir">>, name>> : name \in FileNames}

\* A layer is the sequence of the entries of its archive; the manifest
\* lists the layers of an image in order.
Layers == UNION {[1..n -> EntryPaths] : n \in 0..MaxEntries}
LayerLists == UNION {[1..n -> Layers] : n \in 1..MaxLayers}

\* layers: the layers still to unpack; fs: the paths that exist under the
\* destination; last: the layer unpacked last, before: fs before it.
UnpackIdle ==
    [pc |-> "idle", layers |-> <<>>, fs |-> {}, last |-> <<>>,
     before |-> {}, res |-> ""]

\* ------------------------------------------------------- the user string
\* The characters of user strings: digits, a letter and the separator.
Digits == {"1", "9"}
UserChars == Digits \cup {"a", ":"}
UserStrings == UNION {[1..n -> UserChars] : n \in 0..MaxUserLen}

\* u32::MAX at the width of the model.
U32Max == 2 ^ IdBits - 1

\* /etc/passwd and /etc/group under the rootfs: missing ({}), or a file
\* of at most one entry; its one user or group has a name made of digits.
PasswdFiles ==
    {{}, {<<>>}} \cup
    {{<<[username |-> name, uid |-> 9, gid |-> 9]>>} :
        name \in {<<"1">>, <<"1", "9">>}}
GroupFiles ==
    {{}, {<<>>}} \cup
    {{<<[groupname |-> name, gid |-> 9]>>} : name \in {<<"1">>, <<"1", "9">>}}

\* user, passwd, group: the arguments of parse and the files under its
\* rootfs; out: the pair returned; reads: the files parse has opened.
UserIdle ==
    [pc |-> "idle", user |-> <<>>, passwd |-> {}, group |-> {},
     res |-> "", out |-> <<>>, reads |-> {}]

\* ------------------------------------------------- the mount destination
\* Destinations of mounts as strings of characters, and the roots of
\* containers.
Destinations == UNION {[1..n -> {"/", ".", "a"}] : n \in 0..MaxPathLen}
Rootfs == {<<"/", "r">>, <<"/", "r", "/">>, <<"/">>}

PathIdle == [pc |-> "idle", rootfs |-> <<>>, destination |-> <<>>, out |-> <<>>]

\* -------------------------------------------------------------- devfs
\* DEFAULT_DEVICES of prepare_devfs (filesystem.rs:88-91), each pattern as
\* the names of its path.
DEFAULT_DEVICES ==
    << <<"null">>, <<"zero">>, <<"full">>, <<"random">>, <<"urandom">>,
       <<"tty">>, <<"console">>, <<"pts">>, <<"pts", "*">>, <<"fd">> >>

\* The device nodes a host may have when the devfs is mounted: those every
\* host has, and those only some have.
CommonNodes == {<<"null">>, <<"zero">>, <<"random">>, <<"fd">>, <<"mem">>}
OtherNodes ==
    {<<"tty">>, <<"console">>, <<"pts">>, <<"pts", "0">>, <<"fd", "0">>,
     <<"ada0">>, <<"bpf">>}

\* nodes: the nodes of the mounted devfs; hidden: those hidden; applied:
\* the rules applied so far; failed: an ioctl has failed.
DevIdle ==
    [pc |-> "idle", nodes |-> {}, hidden |-> {}, applied |-> <<>>,
     failed |-> FALSE, res |-> ""]

\* ------------------------------------------------- the env of a process
\* The entries of process.env as strings of characters, and the values of
\* process.env: None, or a list of entries.
EnvEntries == UNION {[1..n -> {"A", "="}] : n \in 0..MaxEntryLen}
ProcessEnvs == {{}} \cup {{e} : e \in UNION {[1..n -> EnvEntries] : n \in 0..MaxEnvEntries}}

\* The environment of the runtime itself.
HostEnv == {<<<<"H">>, <<"A">>>>}

\* process_env: the argument; envs: the pairs handed to Command::envs;
\* child: the environment of the spawned process.
EnvIdle == [pc |-> "idle", process_env |-> {}, envs |-> <<>>, child |-> {}]

\* --------------------------------------------- the channel of updates
\* The progress updates of a layer, in order: "now" is sent without
\* waiting (a cached layer, a chunk that is already there), "later" after
\* the pull has waited for the registry.
UpdateLists == UNION {[1..n -> {"now", "later"}] : n \in 1..MaxUpdates}
LayerUpdates == UNION {[1..n -> UpdateLists] : n \in 1..MaxLayers}

\* pc: what the thread that runs the join is doing; todo: the updates
\* each fetch_layer has still to send; num_messages: the messages in the
\* channel; parked: the senders that are parked; collected: the updates
\* the collector has taken.
JoinIdle ==
    [pc |-> "idle", todo |-> <<>>, num_messages |-> 0, parked |-> {},
     collected |-> 0]

\* No helper was called yet.
UtilFresh ==
    /\ env = EnvIdle
    /\ chan = JoinIdle
    /\ rd = PullIdle
    /\ ix = ResolveIdle
    /\ unp = UnpackIdle
    /\ usr = UserIdle
    /\ pth = PathIdle
    /\ dev = DevIdle

\* An empty storage on a host without containers.
LifecycleFresh ==
    /\ container_config = [c \in Containers |-> {}]
    /\ container_processes = [k \in ProcessKeys |-> {}]
    /\ jails = [c \in Containers |-> {}]
    /\ jidCount = 0
    /\ children = <<>>
    /\ mounted = [c \in Containers |-> <<>>]
    /\ network = [c \in Containers |-> FALSE]
    /\ thr = [t \in Threads |-> IdleThread]
    /\ ops = 0
    /\ created = [c \in Containers |-> FALSE]

InitFresh == LifecycleFresh /\ NetFresh /\ CasFresh /\ FetchFresh /\ UtilFresh

\* The state right after a successful create of a container: its config is
\* stored, its mounts are mounted, its jail persists and its addresses are
\* recorded.
InitCreated ==
    \E b \in {"b1"} :
        /\ container_config = [c \in Containers |-> {b}]
        /\ container_processes = [k \in ProcessKeys |-> {}]
        /\ jails = [c \in Containers |-> {[jid |-> 1, persist |-> TRUE]}]
        /\ jidCount = 1
        /\ children = <<>>
        /\ mounted = [c \in Containers |-> BundleMounts(b)]
        /\ network = [c \in Containers |-> TRUE]
        /\ thr = [t \in Threads |-> IdleThread]
        /\ ops = 0
        /\ created = [c \in Containers |-> TRUE]
        /\ NetFresh
        /\ CasFresh
        /\ FetchFresh
        /\ UtilFresh

\* The callers start on a fresh host or on one with a created container.
Init == InitFresh \/ InitCreated

\* ------------------------------------------------------------ helpers
Key(t) == process_id(thr[t].key, thr[t].exec_id)

\* OciOperations::get_process: the stored record, {} when absent.
get_process(key, exec_id) == container_processes[process_id(key, exec_id)]

\* A compare-and-swap that never detects a conflict.
compare_and_swap_blind(k, old) == TRUE

\* Storage::compare_and_swap succeeds iff the stored value equals old.
compare_and_swap(k, old) == container_processes[k] = old

\* The status of the stored record, "absent" without one.
StoredStatus(k) ==
    IF container_processes[k] = {} THEN "absent"
    ELSE (CHOOSE r \in container_processes[k] : TRUE).status

\* Return of an operation to its caller.
Return(t, res) ==
    [thr[t] EXCEPT !.pc = "done", !.res = res, !.arg = "", !.rec = {},
                   !.jail = {}, !.child = {}, !.list = <<>>, !.exit = {}]

\* Is there a jail with this jid on the host.
JailAlive(jid) == \E c \in Containers : \E j \in jails[c] : j.jid = jid

\* RunningJail::from_name / OciOperations::retrieve_jail
retrieve_jail(key) == {j.jid : j \in jails[key]}

\* A jail without the persist flag is removed with its last process.
ReapJails(js, ch) ==
    [c \in Containers |->
        {j \in js[c] : j.persist \/
            \E p \in 1..Len(ch) : ch[p].state = "running" /\ ch[p].jid = j.jid}]

\* ------------------------------------------------------------ the callers
\* A caller invokes an operation of OciOperations.  The callers are
\* interchangeable: they are numbered in the order of their first calls.
Call(t, op, key, exec_id, arg, pc) ==
    /\ thr[t].pc \in {"idle", "done"}
    /\ \A u \in 1..(t - 1) : thr[u].pc # "idle"
    /\ ops < MaxOps
    /\ ops' = ops + 1
    /\ thr' = [thr EXCEPT ![t] = [IdleThread EXCEPT !.op = op, !.pc = pc,
                  !.key = key, !.exec_id = exec_id, !.arg = arg,
                  !.seen = IF op = "create" /\ created[key]
                           THEN "in_use" ELSE "none"]]
    /\ UNCHANGED <<rest, container_config, container_processes, host, created>>

CallCreate(t) ==
    \E key \in Containers, b \in Bundles :
        Call(t, "create", key, MAIN_PROCESS_EXEC_ID, b, "create_check")

CallStart(t) ==
    \E key \in Containers :
        Call(t, "start", key, MAIN_PROCESS_EXEC_ID, "", "start_config")

CallExec(t) ==
    \E key \in Containers, exec_id \in ExecIds :
        Call(t, "exec", key, exec_id, "", "new_process")

CallWait(t) ==
    \E key \in Containers, exec_id \in ExecIds :
        Call(t, "wait", key, exec_id, "", "wait_get")

CallKill(t) ==
    \E key \in Containers, exec_id \in ExecIds, signal \in Signals :
        Call(t, "kill", key, exec_id, signal, "kill_check")

CallState(t) ==
    \E key \in Containers, exec_id \in ExecIds :
        Call(t, "state", key, exec_id, "", "state_get")

CallDelete(t) ==
    \E key \in Containers, exec_id \in ExecIds :
        Call(t, "delete", key, exec_id, "", "state_get")

\* ------------------------------------------------------------ create
\* create: fail if the main process record exists (operations.rs:86-88).
create_check(t) ==
    /\ thr[t].pc = "create_check"
    /\ IF get_process(thr[t].key, MAIN_PROCESS_EXEC_ID) # {}
       THEN thr' = [thr EXCEPT ![t] = Return(t, "err")]
       ELSE thr' = [thr EXCEPT ![t].pc = "create_put"]
    /\ UNCHANGED <<rest, container_config, container_processes, host, ops, created>>

\* create: read config.json and persist it (operations.rs:90-110).
create_put(t) ==
    /\ thr[t].pc = "create_put"
    /\ IF thr[t].arg = "bad"
       THEN /\ thr' = [thr EXCEPT ![t] =
                          [Return(t, "err") EXCEPT !.failed = <<"put">>]]
            /\ UNCHANGED container_config
       ELSE /\ container_config' =
                   [container_config EXCEPT ![thr[t].key] = {thr[t].arg}]
            /\ thr' = [thr EXCEPT ![t].pc = "create_mounts", ![t].wrote = TRUE,
                                  ![t].trail = Append(@, <<"put">>)]
    /\ UNCHANGED <<rest, container_processes, host, ops, created>>

\* create: self.rootfs()? and self.mounts()? read the stored config
\* (operations.rs:112-115).
create_mounts(t) ==
    /\ thr[t].pc = "create_mounts"
    /\ IF container_config[thr[t].key] = {}
       THEN thr' = [thr EXCEPT ![t] = Return(t, "err")]
       ELSE \E b \in container_config[thr[t].key] :
               thr' = [thr EXCEPT ![t].pc = "create_mount",
                                  ![t].list = BundleMounts(b)]
    /\ UNCHANGED <<rest, container_config, container_processes, host, ops, created>>

\* create: `mountpoint.mount(&rootfs)?` has failed (operations.rs:116).
MountFailed_goes_on(t) ==
    [thr[t] EXCEPT !.list = Tail(@), !.failed = <<"mount", Head(thr[t].list)>>]

MountFailed(t) ==
    [Return(t, "err") EXCEPT !.failed = <<"mount", Head(thr[t].list)>>]

\* create: mount the next mountpoint; a failing mount is surfaced
\* (operations.rs:115-117).  A devfs that is mounted can still fail in
\* its post-mount hook (filesystem.rs:30-37).
create_mount(t) ==
    /\ thr[t].pc = "create_mount"
    /\ IF thr[t].list = <<>>
       THEN /\ thr' = [thr EXCEPT ![t].pc = "create_jail"]
            /\ UNCHANGED mounted
       ELSE \/ /\ mounted' = [mounted EXCEPT ![thr[t].key] =
                                  Append(@, Head(thr[t].list))]
               /\ thr' = [thr EXCEPT ![t].list = Tail(@), ![t].wrote = TRUE,
                      ![t].trail = Append(@, <<"mount", Head(thr[t].list)>>)]
            \/ /\ Head(thr[t].list) = "dev"
               /\ mounted' = [mounted EXCEPT ![thr[t].key] =
                                  Append(@, Head(thr[t].list))]
               /\ thr' = [thr EXCEPT ![t] =
                             [MountFailed(t) EXCEPT !.wrote = TRUE]]
            \/ /\ thr' = [thr EXCEPT ![t] = MountFailed(t)]
               /\ UNCHANGED mounted
    /\ UNCHANGED <<rest, container_config, container_processes, jails, jidCount,
                   children, network, ops, created>>

\* create: StoppedJail::start; a jail name is unique on the host
\* (operations.rs:119-126).
create_jail(t) ==
    /\ thr[t].pc = "create_jail"
    /\ IF jails[thr[t].key] # {}
       THEN /\ thr' = [thr EXCEPT ![t] =
                          [Return(t, "err") EXCEPT !.failed = <<"jail">>]]
            /\ UNCHANGED <<jails, jidCount>>
       ELSE /\ jidCount' = jidCount + 1
            /\ jails' = [jails EXCEPT ![thr[t].key] =
                            {[jid |-> jidCount + 1, persist |-> TRUE]}]
            /\ thr' = [thr EXCEPT ![t].pc = "create_network",
                                  ![t].jail = {jidCount + 1},
                                  ![t].wrote = TRUE,
                                  ![t].trail = Append(@, <<"jail">>)]
    /\ UNCHANGED <<rest, container_config, container_processes, children, mounted,
                   network, ops, created>>

\* create: network::setup (operations.rs:128, network.rs:24-41); the
\* allocation record is written by reserve_addresses, and the steps
\* before and after it can fail.
create_network(t) ==
    /\ thr[t].pc = "create_network"
    /\ \/ /\ network' = [network EXCEPT ![thr[t].key] = TRUE]
          /\ thr' = [thr EXCEPT ![t] =
                        [Return(t, "ok") EXCEPT !.wrote = TRUE,
                             !.trail = Append(@, <<"network">>)]]
          /\ created' = [created EXCEPT ![thr[t].key] = TRUE]
       \/ /\ network' = [network EXCEPT ![thr[t].key] = TRUE]
          /\ thr' = [thr EXCEPT ![t] =
                        [Return(t, "err") EXCEPT !.wrote = TRUE,
                             !.failed = <<"network">>]]
          /\ UNCHANGED created
       \/ /\ UNCHANGED <<network, created>>
          /\ thr' = [thr EXCEPT ![t] =
                        [Return(t, "err") EXCEPT !.failed = <<"network">>]]
    /\ UNCHANGED <<rest, container_config, container_processes, jails, jidCount,
                   children, mounted, ops>>

\* ------------------------------------------------------------ start, exec
\* do_start: self.config()? (operations.rs:214-219).
do_start(t) ==
    /\ thr[t].pc = "start_config"
    /\ IF container_config[thr[t].key] = {}
       THEN thr' = [thr EXCEPT ![t] = Return(t, "err")]
       ELSE thr' = [thr EXCEPT ![t].pc = "new_process"]
    /\ UNCHANGED <<rest, container_config, container_processes, host, ops, created>>

\* new_process: compare-and-swap absent -> Created (operations.rs:229, 376-391).
new_process(t) ==
    /\ thr[t].pc = "new_process"
    /\ IF compare_and_swap(Key(t), {})
       THEN /\ container_processes' =
                   [container_processes EXCEPT ![Key(t)] = {NewOciStatus}]
            /\ thr' = [thr EXCEPT ![t].pc = "check_status", ![t].wrote = TRUE,
                                  ![t].seen = StoredStatus(Key(t))]
       ELSE /\ thr' = [thr EXCEPT ![t] =
                          [Return(t, "err") EXCEPT !.seen = StoredStatus(Key(t))]]
            /\ UNCHANGED container_processes
    /\ UNCHANGED <<rest, container_config, host, ops, created>>

\* do_exec: only a Created process is started (operations.rs:230-235).
check_status(t) ==
    /\ thr[t].pc = "check_status"
    /\ IF \E r \in get_process(thr[t].key, thr[t].exec_id) : r.status = "Created"
       THEN thr' = [thr EXCEPT ![t].pc = "exec_rootfs"]
       ELSE thr' = [thr EXCEPT ![t] = Return(t, "err")]
    /\ UNCHANGED <<rest, container_config, container_processes, host, ops, created>>

\* do_exec: self.rootfs()? reads the stored config (operations.rs:236).
exec_rootfs(t) ==
    /\ thr[t].pc = "exec_rootfs"
    /\ IF container_config[thr[t].key] = {}
       THEN thr' = [thr EXCEPT ![t] = Return(t, "err")]
       ELSE thr' = [thr EXCEPT ![t].pc = "starting_get"]
    /\ UNCHANGED <<rest, container_config, container_processes, host, ops, created>>

\* update_process, first half: re-read the record (operations.rs:363-366).
update_process_get(t, pc, next) ==
    /\ thr[t].pc = pc
    /\ IF get_process(thr[t].key, thr[t].exec_id) = {}
       THEN thr' = [thr EXCEPT ![t] = Return(t, "err")]
       ELSE thr' = [thr EXCEPT ![t].pc = next,
                               ![t].rec = get_process(thr[t].key, thr[t].exec_id)]
    /\ UNCHANGED <<rest, container_config, container_processes, host, ops, created>>

\* update_process, second half: compare-and-swap the record that was read
\* against the changed copy (operations.rs:368-373).
update_process_cas(t, pc, new, after) ==
    /\ thr[t].pc = pc
    /\ IF compare_and_swap(Key(t), thr[t].rec)
       THEN /\ container_processes' =
                   [container_processes EXCEPT ![Key(t)] = {new}]
            /\ thr' = [thr EXCEPT ![t] = [after EXCEPT !.wrote = TRUE]]
       ELSE /\ thr' = [thr EXCEPT ![t] = Return(t, "err")]
            /\ UNCHANGED container_processes
    /\ UNCHANGED <<rest, container_config, host, ops, created>>

TheRec(t) == CHOOSE r \in thr[t].rec : TRUE

\* do_exec: status = Starting (operations.rs:259-261).
starting_get(t) == update_process_get(t, "starting_get", "starting_cas")

starting_cas(t) ==
    update_process_cas(t, "starting_cas",
                       [TheRec(t) EXCEPT !.status = "Starting"],
                       [thr[t] EXCEPT !.pc = "retrieve_jail"])

\* do_exec: self.retrieve_jail()? (operations.rs:263).
exec_retrieve_jail(t) ==
    /\ thr[t].pc = "retrieve_jail"
    /\ IF retrieve_jail(thr[t].key) = {}
       THEN thr' = [thr EXCEPT ![t] = Return(t, "err")]
       ELSE thr' = [thr EXCEPT ![t].pc = "spawn",
                               ![t].jail = retrieve_jail(thr[t].key)]
    /\ UNCHANGED <<rest, container_config, container_processes, host, ops, created>>

\* A command that is spawned on the host, outside every jail.
SpawnJid_host(t) == 0

\* do_exec: process.jail(&jail) attaches the child to the retrieved jail
\* (operations.rs:267-268).
SpawnJid(t) == CHOOSE j \in thr[t].jail : TRUE

\* do_exec: the pre-spawn hook f and Command::spawn into the jail
\* (operations.rs:264-275).  The hook can fail; the spawn can fail, and
\* does when the jail is gone.
spawn(t) ==
    /\ thr[t].pc = "spawn"
    /\ \/ /\ thr[t].op = "exec"
          /\ thr' = [thr EXCEPT ![t] = Return(t, "err")]
          /\ UNCHANGED children
       \/ /\ thr' = [thr EXCEPT ![t].pc = "defer_cleanup", ![t].child = {},
                                  ![t].failed = <<"spawn">>]
          /\ UNCHANGED children
       \/ /\ \E j \in thr[t].jail : JailAlive(j)
          /\ children' = Append(children,
                [state |-> "running", jid |-> SpawnJid(t),
                 signalled |-> FALSE, exit_status |-> {}])
          /\ thr' = [thr EXCEPT ![t].pc = "defer_cleanup",
                                ![t].child = {Len(children) + 1},
                                ![t].spawned = TRUE, ![t].wrote = TRUE]
    /\ UNCHANGED <<rest, container_config, container_processes, jails, jidCount,
                   mounted, network, ops, created>>

\* do_exec: jail.defer_cleanup()? clears the persist flag of the jail
\* (operations.rs:276).
defer_cleanup(t) ==
    /\ thr[t].pc = "defer_cleanup"
    /\ IF \E j \in thr[t].jail : JailAlive(j)
       THEN /\ jails' = ReapJails(
                   [c \in Containers |->
                       {IF j.jid \in thr[t].jail
                        THEN [j EXCEPT !.persist = FALSE] ELSE j : j \in jails[c]}],
                   children)
            /\ thr' = [thr EXCEPT ![t].pc = "final_get", ![t].wrote = TRUE]
       ELSE /\ thr' = [thr EXCEPT ![t] = Return(t, "err")]
            /\ UNCHANGED jails
    /\ UNCHANGED <<rest, container_config, container_processes, jidCount, children,
                   mounted, network, ops, created>>

\* do_exec: record the outcome of the spawn (operations.rs:278-294).
final_get(t) == update_process_get(t, "final_get", "final_cas")

final_cas(t) ==
    IF thr[t].child = {}
    THEN update_process_cas(t, "final_cas",
             [TheRec(t) EXCEPT !.status = "Stopped"], Return(t, "err"))
    ELSE update_process_cas(t, "final_cas",
             [TheRec(t) EXCEPT !.status = "Running",
                               !.pid = CHOOSE p \in thr[t].child : TRUE,
                               !.jid = CHOOSE j \in thr[t].jail : TRUE],
             Return(t, "ok"))

\* ------------------------------------------------------------ wait
\* do_wait: read the record for its pid (operations.rs:304).
wait_get(t) ==
    /\ thr[t].pc = "wait_get"
    /\ IF get_process(thr[t].key, thr[t].exec_id) = {}
       THEN thr' = [thr EXCEPT ![t] = Return(t, "err")]
       ELSE \E r \in get_process(thr[t].key, thr[t].exec_id) :
               thr' = [thr EXCEPT ![t].pc = "waitpid", ![t].rec = {r},
                                  ![t].seen = r.status]
    /\ UNCHANGED <<rest, container_config, container_processes, host, ops, created>>

\* The children waitpid(pid) can wait for: the child pid itself, or, for
\* pid 0, every child in the caller's process group.
Waitable(pid) ==
    {p \in 1..Len(children) :
        children[p].state # "reaped" /\ (pid = 0 \/ pid = p)}

\* do_wait: waitpid(pid) blocks until a child it waits for has exited and
\* reaps it; without such a child it fails with ECHILD
\* (operations.rs:307-312).
waitpid(t) ==
    /\ thr[t].pc = "waitpid"
    /\ LET pid == TheRec(t).pid IN
       IF Waitable(pid) = {}
       THEN /\ thr' = [thr EXCEPT ![t] = Return(t, "err")]
            /\ UNCHANGED children
       ELSE \E p \in Waitable(pid) :
               /\ children[p].state = "zombie"
               /\ children' = [children EXCEPT ![p].state = "reaped"]
               /\ thr' = [thr EXCEPT ![t].pc = "wait_upd_get",
                                     ![t].exit = children[p].exit_status,
                                     ![t].child = {p}, ![t].wrote = TRUE]
    /\ UNCHANGED <<rest, container_config, container_processes, jails, jidCount,
                   mounted, network, ops, created>>

\* do_wait: pid = 0, status = Stopped, exit_status (operations.rs:314-319).
wait_upd_get(t) == update_process_get(t, "wait_upd_get", "wait_upd_cas")

wait_upd_cas(t) ==
    update_process_cas(t, "wait_upd_cas",
        [TheRec(t) EXCEPT !.pid = 0, !.status = "Stopped",
                          !.exit_status = thr[t].exit],
        Return(t, "ok"))

\* ------------------------------------------------------------ kill
\* A kill that signals whatever the stored status is.
CanKill_any(status) == TRUE

\* do_kill: state.status != ProcessStatus::Running bails (operations.rs:161).
CanKill(status) == status = "Running"

\* do_kill: only a Running process is signalled (operations.rs:160-163).
kill_check(t) ==
    /\ thr[t].pc = "kill_check"
    /\ IF get_process(thr[t].key, thr[t].exec_id) = {}
       THEN thr' = [thr EXCEPT ![t] = Return(t, "err")]
       ELSE \E r \in get_process(thr[t].key, thr[t].exec_id) :
               IF ~CanKill(r.status)
               THEN thr' = [thr EXCEPT ![t] =
                               [Return(t, "err") EXCEPT !.seen = r.status]]
               ELSE thr' = [thr EXCEPT ![t].pc = "kill_jail", ![t].rec = {r},
                                       ![t].seen = r.status]
    /\ UNCHANGED <<rest, container_config, container_processes, host, ops, created>>

\* do_kill: self.retrieve_jail()? (operations.rs:165).
kill_jail(t) ==
    /\ thr[t].pc = "kill_jail"
    /\ IF retrieve_jail(thr[t].key) = {}
       THEN thr' = [thr EXCEPT ![t] = Return(t, "err")]
       ELSE thr' = [thr EXCEPT ![t].pc = "kill_signal",
                               ![t].jail = retrieve_jail(thr[t].key)]
    /\ UNCHANGED <<rest, container_config, container_processes, host, ops, created>>

\* do_kill: attach to the jail in a forked helper and kill(pid, signal)
\* there (operations.rs:167-178).
kill_signal(t) ==
    /\ thr[t].pc = "kill_signal"
    /\ LET pid == TheRec(t).pid IN
       IF /\ \E j \in thr[t].jail : JailAlive(j)
          /\ pid \in 1..Len(children)
          /\ children[pid].state = "running"
          /\ children[pid].jid \in thr[t].jail
       THEN /\ children' = [children EXCEPT ![pid].signalled = TRUE]
            /\ thr' = [thr EXCEPT ![t] =
                          [Return(t, "ok") EXCEPT !.signalled = TRUE,
                                                  !.wrote = TRUE]]
       ELSE /\ thr' = [thr EXCEPT ![t] = Return(t, "err")]
            /\ UNCHANGED children
    /\ UNCHANGED <<rest, container_config, container_processes, jails, jidCount,
                   mounted, network, ops, created>>

\* ------------------------------------------------------------ state, delete
\* The status get_state reports for a stored status and a jail probe
\* (operations.rs:191-195).
ReportedStatus(jail, status) ==
    CASE jail # {} /\ status = "Running" -> "Running"
      [] jail = {} /\ status = "Running" -> "Running"
      [] OTHER -> status

\* get_state: self.get_process(exec_id)? (operations.rs:188); first step of
\* state and of cleanup (operations.rs:409).  state returns the error;
\* do_delete logs it and returns nothing (operations.rs:145-149).
state_get(t) ==
    /\ thr[t].pc = "state_get"
    /\ IF get_process(thr[t].key, thr[t].exec_id) = {}
       THEN thr' = [thr EXCEPT ![t] =
                       [Return(t, IF thr[t].op = "delete" THEN "ok" ELSE "err")
                        EXCEPT !.seen =
                                   IF /\ created[thr[t].key]
                                      /\ thr[t].exec_id = MAIN_PROCESS_EXEC_ID
                                   THEN "unstarted" ELSE "none",
                               !.out = IF thr[t].op = "delete"
                                       THEN "failed" ELSE "none"]]
       ELSE thr' = [thr EXCEPT ![t].pc = "state_jail",
                               ![t].rec = get_process(thr[t].key, thr[t].exec_id)]
    /\ UNCHANGED <<rest, container_config, container_processes, host, ops, created>>

\* cleanup: the status must be Stopped or Created (operations.rs:410-412).
CanDelete(status) == status = "Stopped" \/ status = "Created"

\* get_state: probe the jail and report (operations.rs:189-197); cleanup
\* goes on only from Stopped or Created (operations.rs:410-417).
state_jail(t) ==
    /\ thr[t].pc = "state_jail"
    /\ LET status == ReportedStatus(retrieve_jail(thr[t].key), TheRec(t).status) IN
       IF thr[t].op = "state"
       THEN thr' = [thr EXCEPT ![t] =
                       [Return(t, "ok") EXCEPT !.out = status,
                            !.seen = TheRec(t).status,
                            !.arg = IF retrieve_jail(thr[t].key) = {}
                                    THEN "nojail" ELSE "jail"]]
       ELSE IF ~CanDelete(status)
       THEN thr' = [thr EXCEPT ![t] =
                       [Return(t, "ok") EXCEPT !.seen = TheRec(t).status,
                                               !.out = "failed"]]
       ELSE thr' = [thr EXCEPT ![t].pc = "delete_process",
                               ![t].seen = TheRec(t).status]
    /\ UNCHANGED <<rest, container_config, container_processes, host, ops, created>>

\* cleanup: self.delete_process(exec_id)? removes the record
\* (operations.rs:419, 393-399).  Deleting the main process ends the
\* history "created and not yet deleted", also for a create in flight.
delete_process(t) ==
    /\ thr[t].pc = "delete_process"
    /\ container_processes' = [container_processes EXCEPT ![Key(t)] = {}]
    /\ thr' = [u \in Threads |->
                 IF u = t
                 THEN [thr[t] EXCEPT !.pc = "delete_mounts", !.wrote = TRUE,
                                     !.trail = Append(@, <<"delete_process">>)]
                 ELSE IF /\ thr[t].exec_id = MAIN_PROCESS_EXEC_ID
                         /\ thr[u].key = thr[t].key
                         /\ thr[u].seen = "in_use"
                         /\ thr[u].pc # "done"
                 THEN [thr[u] EXCEPT !.seen = "none"]
                 ELSE thr[u]]
    /\ created' = IF thr[t].exec_id = MAIN_PROCESS_EXEC_ID
                  THEN [created EXCEPT ![thr[t].key] = FALSE] ELSE created
    /\ UNCHANGED <<rest, container_config, host, ops>>

\* cleanup: self.rootfs()? and self.mounts()? read the stored config
\* (operations.rs:421-422).
delete_mounts(t) ==
    /\ thr[t].pc = "delete_mounts"
    /\ IF container_config[thr[t].key] = {}
       THEN thr' = [thr EXCEPT ![t] =
                       [Return(t, "ok") EXCEPT !.out = "failed",
                                               !.failed = <<"config">>]]
       ELSE \E b \in container_config[thr[t].key] :
               thr' = [thr EXCEPT ![t].pc = "delete_unmount",
                                  ![t].list = BundleMounts(b)]
    /\ UNCHANGED <<rest, container_config, container_processes, host, ops, created>>

\* The mount table after unmount(2) of a mountpoint: the topmost mount on
\* it is gone.
RECURSIVE RemoveLast(_, _)
RemoveLast(seq, m) ==
    IF seq = <<>> THEN <<>>
    ELSE IF seq[Len(seq)] = m THEN SubSeq(seq, 1, Len(seq) - 1)
    ELSE Append(RemoveLast(SubSeq(seq, 1, Len(seq) - 1), m), seq[Len(seq)])

IsMounted(key, m) == \E i \in 1..Len(mounted[key]) : mounted[key][i] = m

\* cleanup: unmount the mounts in reverse order; a failing unmount ends
\* cleanup (operations.rs:422-424).  do_delete logs the error and returns
\* nothing (operations.rs:145-149).
delete_unmount(t) ==
    /\ thr[t].pc = "delete_unmount"
    /\ IF thr[t].list = <<>>
       THEN /\ thr' = [thr EXCEPT ![t].pc = "delete_network"]
            /\ UNCHANGED mounted
       ELSE LET m == thr[t].list[Len(thr[t].list)] IN
            \/ /\ IsMounted(thr[t].key, m)
               /\ mounted' = [mounted EXCEPT ![thr[t].key] = RemoveLast(@, m)]
               /\ thr' = [thr EXCEPT ![t].list = SubSeq(@, 1, Len(@) - 1),
                                     ![t].wrote = TRUE,
                                     ![t].trail = Append(@, <<"unmount", m>>)]
            \/ /\ thr' = [thr EXCEPT ![t] =
                             [Return(t, "ok") EXCEPT !.out = "failed",
                                  !.failed = <<"unmount", m>>]]
               /\ UNCHANGED mounted
    /\ UNCHANGED <<rest, container_config, container_processes, jails, jidCount,
                   children, network, ops, created>>

\* cleanup: network::teardown fails without an address record or when
\* the interface cannot be destroyed, else releases the record
\* (operations.rs:426, network.rs:43-59).
delete_network(t) ==
    /\ thr[t].pc = "delete_network"
    /\ \/ /\ network[thr[t].key]
          /\ network' = [network EXCEPT ![thr[t].key] = FALSE]
          /\ thr' = [thr EXCEPT ![t] =
                        [Return(t, "ok") EXCEPT !.out = "cleaned", !.wrote = TRUE,
                             !.trail = Append(@, <<"teardown">>)]]
       \/ /\ UNCHANGED network
          /\ thr' = [thr EXCEPT ![t] =
                        [Return(t, "ok") EXCEPT !.out = "failed",
                             !.failed = <<"teardown">>]]
    /\ UNCHANGED <<rest, container_config, container_processes, jails, jidCount,
                   children, mounted, ops, created>>

\* A process of a container exits; its jail goes with its last process
\* unless it persists.
ProcExit(p) ==
    /\ p \in 1..Len(children)
    /\ children[p].state = "running"
    /\ \E st \in (IF children[p].signalled THEN {{}, {p}} ELSE {{p}}) :
          children' = [children EXCEPT ![p].state = "zombie",
                                       ![p].exit_status = st]
    /\ jails' = ReapJails(jails, children')
    /\ UNCHANGED <<rest, container_config, container_processes, jidCount, mounted,
                   network, thr, ops, created>>

Next ==
    \E t \in Threads :
        \/ CallCreate(t)
        \/ create_check(t)
        \/ create_put(t)
        \/ create_mounts(t)
        \/ create_mount(t)
        \/ create_jail(t)
        \/ create_network(t)
        \/ CallStart(t)
        \/ CallExec(t)
        \/ do_start(t)
        \/ new_process(t)
        \/ check_status(t)
        \/ exec_rootfs(t)
        \/ starting_get(t)
        \/ starting_cas(t)
        \/ exec_retrieve_jail(t)
        \/ spawn(t)
        \/ defer_cleanup(t)
        \/ final_get(t)
        \/ final_cas(t)
        \/ CallWait(t)
        \/ wait_get(t)
        \/ waitpid(t)
        \/ wait_upd_get(t)
        \/ wait_upd_cas(t)
        \/ CallKill(t)
        \/ kill_check(t)
        \/ kill_jail(t)
        \/ kill_signal(t)
        \/ CallState(t)
        \/ CallDelete(t)
        \/ state_get(t)
        \/ state_jail(t)
        \/ delete_process(t)
        \/ delete_mounts(t)
        \/ delete_unmount(t)
        \/ delete_network(t)

Environment ==
    \E p \in 1..MaxOps : ProcExit(p)

Spec == Init /\ [][Next \/ Environment]_vars

\* ------------------------------------------------- concurrent start calls
\* Every caller calls start once, all on the same container.
StartOnce(t) ==
    /\ thr[t].pc = "idle"
    /\ CallStart(t)

NextStart ==
    \E t \in Threads :
        \/ StartOnce(t)
        \/ do_start(t)
        \/ new_process(t)
        \/ check_status(t)
        \/ exec_rootfs(t)
        \/ starting_get(t)
        \/ starting_cas(t)
        \/ exec_retrieve_jail(t)
        \/ spawn(t)
        \/ defer_cleanup(t)
        \/ final_get(t)
        \/ final_cas(t)

SpecStart == InitCreated /\ [][NextStart \/ Environment]_vars

\* ------------------------------------------------------------ network
\* Return of network::setup or network::teardown to its caller.
NetReturn(t, res) ==
    [nthr[t] EXCEPT !.pc = "done", !.res = res, !.heap = {}, !.cache = {},
                    !.address = {}, !.ret = ""]

NetCall(t, op, key, pc) ==
    /\ nthr[t].pc \in {"idle", "done"}
    /\ nops < MaxNetOps
    /\ nops' = nops + 1
    /\ nthr' = [nthr EXCEPT ![t] =
                   [NetIdleThread EXCEPT !.op = op, !.pc = pc, !.key = key,
                       !.set_up = nthr[t].set_up \/ op = "setup"]]
    /\ UNCHANGED <<lifecycle, util_state, cas_state, fetch_state, network_heap, container_address, bridge,
                   interfaces>>

CallSetup(t) == \E key \in NetKeys : NetCall(t, "setup", key, "setup_bridge")

CallTeardown(t) ==
    \E key \in NetKeys : NetCall(t, "teardown", key, "teardown_get")

\* setup_bridge: the bridge gets an address only if knast0 does not exist
\* yet (network.rs:96-99); setup_pair then asks for the host address
\* (network.rs:67).
setup_bridge(t) ==
    /\ nthr[t].pc = "setup_bridge"
    /\ nthr' = [nthr EXCEPT ![t].pc = "get_address",
                            ![t].ret = IF bridge = {} THEN "bridge" ELSE "host"]
    /\ UNCHANGED <<lifecycle, util_state, cas_state, fetch_state, network_heap, container_address, bridge,
                   interfaces, nops>>

\* get_address: storage.get of the heap (network.rs:113-114).
get_address(t) ==
    /\ nthr[t].pc = "get_address"
    /\ nthr' = [nthr EXCEPT ![t].heap = network_heap,
                            ![t].pc = "get_address_cas"]
    /\ UNCHANGED <<lifecycle, util_state, cas_state, fetch_state, network_heap, container_address, bridge,
                   interfaces, nops>>

\* get_address: the address it takes from the heap it read: the greatest,
\* or the next one if that is_broadcast; {} when none is left
\* (network.rs:119-127).
PopAddress(heap) ==
    IF HeapLen(heap) = 0 THEN {}
    ELSE IF ~is_broadcast(HeapMax(heap)) THEN {HeapMax(heap)}
    ELSE IF HeapLen(HeapPop(heap)) = 0 THEN {}
    ELSE {HeapMax(HeapPop(heap))}

\* The heap get_address writes back (network.rs:117-127).
PoppedHeap(heap) ==
    IF is_broadcast(HeapMax(heap)) THEN HeapPop(HeapPop(heap)) ELSE HeapPop(heap)

\* get_address: with no heap stored, store the whole range and start over,
\* returning the error of a lost compare-and-swap (network.rs:139-148);
\* else pop and compare-and-swap, starting over when it is lost
\* (network.rs:116-137).
get_address_cas(t) ==
    /\ nthr[t].pc = "get_address_cas"
    /\ IF nthr[t].heap = {}
       THEN IF network_heap = {}
            THEN /\ network_heap' = {ip_range}
                 /\ nthr' = [nthr EXCEPT ![t].pc = "get_address"]
            ELSE /\ nthr' = [nthr EXCEPT ![t] =
                       [NetReturn(t, "err") EXCEPT !.conflict = "get_address"]]
                 /\ UNCHANGED network_heap
       ELSE LET heap == CHOOSE h \in nthr[t].heap : TRUE IN
            IF PopAddress(heap) = {}
            THEN /\ nthr' = [nthr EXCEPT ![t] = NetReturn(t, "err")]
                 /\ UNCHANGED network_heap
            ELSE IF network_heap # nthr[t].heap
            THEN /\ nthr' = [nthr EXCEPT ![t].pc = "get_address"]
                 /\ UNCHANGED network_heap
            ELSE /\ network_heap' = {PoppedHeap(heap)}
                 /\ nthr' = [nthr EXCEPT ![t] =
                       [nthr[t] EXCEPT
                          !.got = @ \cup PopAddress(heap),
                          !.heap = {},
                          !.address = IF nthr[t].ret = "bridge"
                                      THEN PopAddress(heap) ELSE {},
                          !.host = IF nthr[t].ret = "host"
                                   THEN PopAddress(heap) ELSE @,
                          !.container = IF nthr[t].ret = "container"
                                        THEN PopAddress(heap) ELSE @,
                          !.pc = CASE nthr[t].ret = "bridge" -> "bridge_create"
                                   [] nthr[t].ret = "host" -> "get_address"
                                   [] OTHER -> "pair_create",
                          !.ret = IF nthr[t].ret = "host"
                                  THEN "container" ELSE ""]]
    /\ UNCHANGED <<lifecycle, util_state, cas_state, fetch_state, container_address, bridge, interfaces, nops>>

\* setup_bridge: create the bridge, name it knast0 and give it its address;
\* naming fails when another caller has created knast0 meanwhile
\* (network.rs:100-107).
bridge_create(t) ==
    /\ nthr[t].pc = "bridge_create"
    /\ IF bridge # {}
       THEN /\ nthr' = [nthr EXCEPT ![t] = NetReturn(t, "err")]
            /\ UNCHANGED bridge
       ELSE /\ bridge' = nthr[t].address
            /\ nthr' = [nthr EXCEPT ![t].pc = "get_address", ![t].ret = "host",
                                    ![t].address = {}]
    /\ UNCHANGED <<lifecycle, util_state, cas_state, fetch_state, network_heap, container_address, interfaces, nops>>

\* The unit the kernel gives a new epair: the lowest one that is free.
FreeUnit == CHOOSE u \in 0..Cardinality(interfaces) : u \notin interfaces

\* setup_pair: create the epair and address its host side; either may fail
\* (network.rs:71-75).
pair_create(t) ==
    /\ nthr[t].pc = "pair_create"
    /\ \/ /\ interfaces' = interfaces \cup {FreeUnit}
          /\ nthr' = [nthr EXCEPT ![t].iface = {FreeUnit},
                                  ![t].pc = "addresses_get"]
       \/ /\ nthr' = [nthr EXCEPT ![t] = NetReturn(t, "err")]
          /\ UNCHANGED interfaces
    /\ UNCHANGED <<lifecycle, util_state, cas_state, fetch_state, network_heap, container_address, bridge, nops>>

\* reserve_addresses and release_addresses: storage.get of the address
\* records (network.rs:190-191, 227-228).
addresses_get(t) ==
    /\ nthr[t].pc = "addresses_get"
    /\ nthr' = [nthr EXCEPT ![t].cache = container_address,
                            ![t].pc = IF nthr[t].op = "setup"
                                      THEN "reserve_addresses"
                                      ELSE "release_addresses"]
    /\ UNCHANGED <<lifecycle, util_state, cas_state, fetch_state, network_heap, container_address, bridge,
                   interfaces, nops>>

\* The compare-and-swap of the address records by reserve_addresses and
\* release_addresses: with none stored, store the empty map and start
\* over, returning the error of a lost compare-and-swap; else swap in the
\* new map, starting over when the swap is lost.
addresses_cas(t, new, after) ==
    IF nthr[t].cache = {}
    THEN IF container_address = {}
         THEN /\ container_address' = {EmptyCache}
              /\ nthr' = [nthr EXCEPT ![t].pc = "addresses_get"]
         ELSE /\ nthr' = [nthr EXCEPT ![t] =
                    [NetReturn(t, "err") EXCEPT !.conflict = nthr[t].pc]]
              /\ UNCHANGED container_address
    ELSE IF container_address # nthr[t].cache
    THEN /\ nthr' = [nthr EXCEPT ![t].pc = "addresses_get"]
         /\ UNCHANGED container_address
    ELSE /\ container_address' =
               {[(CHOOSE c \in nthr[t].cache : TRUE) EXCEPT ![nthr[t].key] = new]}
         /\ nthr' = [nthr EXCEPT ![t] = after]

\* reserve_addresses: record the interface and the two addresses under the
\* container (network.rs:193-216).
reserve_addresses(t) ==
    /\ nthr[t].pc = "reserve_addresses"
    /\ addresses_cas(t,
          {[iface |-> CHOOSE u \in nthr[t].iface : TRUE,
            host |-> CHOOSE a \in nthr[t].host : TRUE,
            container |-> CHOOSE a \in nthr[t].container : TRUE]},
          [nthr[t] EXCEPT !.pc = "pair_finish", !.cache = {}])
    /\ UNCHANGED <<lifecycle, util_state, cas_state, fetch_state, network_heap, bridge, interfaces, nops>>

\* setup_pair and setup after the addresses are recorded: move side b into
\* the jail, address it, add the default route, add side a to the bridge,
\* add the NAT rule; each may fail (network.rs:78-88, 32-40).
pair_finish(t) ==
    /\ nthr[t].pc = "pair_finish"
    /\ \E res \in {"ok", "err"} : nthr' = [nthr EXCEPT ![t] = NetReturn(t, res)]
    /\ UNCHANGED <<lifecycle, util_state, cas_state, fetch_state, network_heap, container_address, bridge,
                   interfaces, nops>>

\* teardown: read the record of the container; fail without one
\* (network.rs:48-54).
teardown_get(t) ==
    /\ nthr[t].pc = "teardown_get"
    /\ IF container_address = {}
          \/ (CHOOSE c \in container_address : TRUE)[nthr[t].key] = {}
       THEN nthr' = [nthr EXCEPT ![t] = NetReturn(t, "err")]
       ELSE LET r == CHOOSE r \in
                       (CHOOSE c \in container_address : TRUE)[nthr[t].key] : TRUE
            IN nthr' = [nthr EXCEPT ![t].iface = {r.iface}, ![t].host = {r.host},
                                    ![t].container = {r.container},
                                    ![t].pc = "teardown_destroy"]
    /\ UNCHANGED <<lifecycle, util_state, cas_state, fetch_state, network_heap, container_address, bridge,
                   interfaces, nops>>

\* teardown: destroy the interface; fails when it does not exist
\* (network.rs:55).
teardown_destroy(t) ==
    /\ nthr[t].pc = "teardown_destroy"
    /\ IF nthr[t].iface \subseteq interfaces
       THEN /\ interfaces' = interfaces \ nthr[t].iface
            /\ nthr' = [nthr EXCEPT ![t].pc = "addresses_get"]
       ELSE /\ nthr' = [nthr EXCEPT ![t] = NetReturn(t, "err")]
            /\ UNCHANGED interfaces
    /\ UNCHANGED <<lifecycle, util_state, cas_state, fetch_state, network_heap, container_address, bridge, nops>>

\* release_addresses: remove the record of the container; teardown then
\* frees the host address (network.rs:230-252, 56-57).
release_addresses(t) ==
    /\ nthr[t].pc = "release_addresses"
    /\ addresses_cas(t, {},
          [nthr[t] EXCEPT !.pc = "free_address", !.cache = {},
                          !.address = nthr[t].host, !.ret = "container"])
    /\ UNCHANGED <<lifecycle, util_state, cas_state, fetch_state, network_heap, bridge, interfaces, nops>>

\* free_address: storage.get of the heap (network.rs:153-155).
free_address(t) ==
    /\ nthr[t].pc = "free_address"
    /\ nthr' = [nthr EXCEPT ![t].heap = network_heap,
                            ![t].pc = "free_address_cas"]
    /\ UNCHANGED <<lifecycle, util_state, cas_state, fetch_state, network_heap, container_address, bridge,
                   interfaces, nops>>

\* free_address: with no heap stored, store the whole range and start over,
\* returning the error of a lost compare-and-swap (network.rs:170-179);
\* else push and compare-and-swap, starting over when it is lost
\* (network.rs:157-169).  teardown frees the host address, then the
\* container address (network.rs:57-58).
free_address_cas(t) ==
    /\ nthr[t].pc = "free_address_cas"
    /\ LET address == CHOOSE a \in nthr[t].address : TRUE IN
       IF nthr[t].heap = {}
       THEN IF network_heap = {}
            THEN /\ network_heap' = {ip_range}
                 /\ nthr' = [nthr EXCEPT ![t].pc = "free_address"]
            ELSE /\ nthr' = [nthr EXCEPT ![t] =
                       [NetReturn(t, "err") EXCEPT !.conflict = "free_address"]]
                 /\ UNCHANGED network_heap
       ELSE IF network_heap # nthr[t].heap
       THEN /\ nthr' = [nthr EXCEPT ![t].pc = "free_address"]
            /\ UNCHANGED network_heap
       ELSE /\ network_heap' =
                  {HeapPush(CHOOSE h \in nthr[t].heap : TRUE, address)}
            /\ nthr' = [nthr EXCEPT ![t] =
                  IF nthr[t].ret = "container"
                  THEN [nthr[t] EXCEPT !.pushed = Append(@, address),
                           !.heap = {}, !.address = nthr[t].container,
                           !.ret = "", !.pc = "free_address"]
                  ELSE [NetReturn(t, "ok") EXCEPT
                           !.pushed = Append(nthr[t].pushed, address)]]
    /\ UNCHANGED <<lifecycle, util_state, cas_state, fetch_state, container_address, bridge, interfaces, nops>>

NextNet ==
    \E t \in NetCallers :
        \/ CallSetup(t)
        \/ CallTeardown(t)
        \/ setup_bridge(t)
        \/ get_address(t)
        \/ get_address_cas(t)
        \/ bridge_create(t)
        \/ pair_create(t)
        \/ addresses_get(t)
        \/ reserve_addresses(t)
        \/ pair_finish(t)
        \/ teardown_get(t)
        \/ teardown_destroy(t)
        \/ release_addresses(t)
        \/ free_address(t)
        \/ free_address_cas(t)

\* The network calls start on a fresh host or on one with c1 set up.
InitNet == LifecycleFresh /\ (NetFresh \/ NetSetUp) /\ CasFresh /\ FetchFresh /\ UtilFresh

SpecNet == InitNet /\ [][NextNet]_vars

\* ------------------------------------------------------------ storage
\* sled::Tree::compare_and_swap: set the key to new (delete it when new is
\* None) if its current value is old (if it is absent when old is None),
\* else return CompareAndSwapError, for which the engine returns the error
\* "Compare and swap conflict" (sled_engine.rs:44-63).
sled_compare_and_swap_always(current, old, new) == [ok |-> TRUE, value |-> new]

sled_compare_and_swap(current, old, new) ==
    IF current = old THEN [ok |-> TRUE, value |-> new]
    ELSE [ok |-> FALSE, value |-> current]

\* try_insert.sql and cas.sql, run in one transaction: the update returns a
\* row exactly if the stored value is the old one.
cas_rows(current, old, new) == IF current = old THEN {new} ELSE {}

\* The SQLite engine: without a row from the cas statement it bails with
\* "Compare and swap conflict" and the transaction is dropped, else it
\* commits (sqlite_engine.rs:67-119).
sqlite_compare_and_swap(current, old, new) ==
    IF cas_rows(current, old, new) = {}
    THEN [ok |-> FALSE, value |-> current]
    ELSE [ok |-> TRUE, value |-> CHOOSE v \in cas_rows(current, old, new) : TRUE]

\* Storage::compare_and_swap: serialize old and new, hand them to the
\* engine, return new or the engine's error (lib.rs:98-125).
storage_compare_and_swap(engine, current, old_value, new_value) ==
    LET r == IF engine = "sled"
             THEN sled_compare_and_swap(current, serialize_option(old_value),
                                        serialize_option(new_value))
             ELSE sqlite_compare_and_swap(current, serialize_option(old_value),
                                          serialize_option(new_value))
    IN [res |-> IF r.ok THEN "ok" ELSE "Compare and swap conflict",
        returned |-> IF r.ok THEN new_value ELSE {},
        stored |-> r.value]

\* Storage::put: store the serialized value (lib.rs:84-96).
Put ==
    \E value \in Values :
        /\ kv' = {serialize(value)}
        /\ cas' = CasIdle
        /\ UNCHANGED <<lifecycle, util_state, net_state, fetch_state>>

\* Storage::remove (lib.rs:127-130).
Remove ==
    /\ kv' = {}
    /\ cas' = CasIdle
    /\ UNCHANGED <<lifecycle, util_state, net_state, fetch_state>>

\* A call of Storage::compare_and_swap on the key.
CompareAndSwap ==
    \E engine \in Engines, old_value \in Option(Values), new_value \in Option(Values) :
        LET r == storage_compare_and_swap(engine, kv, old_value, new_value) IN
        /\ kv' = r.stored
        /\ cas' = [engine |-> engine, old |-> old_value, new |-> new_value,
                   before |-> kv, res |-> r.res, returned |-> r.returned]
        /\ UNCHANGED <<lifecycle, util_state, net_state, fetch_state>>

NextCas == Put \/ Remove \/ CompareAndSwap

InitCas == LifecycleFresh /\ NetFresh /\ CasFresh /\ FetchFresh /\ UtilFresh

SpecCas == InitCas /\ [][NextCas]_vars

\* ------------------------------------------------------------ fetcher
\* Return of fetch to its caller; a dropped future returns nothing.
FetchReturn(t, res) ==
    [fthr[t] EXCEPT !.pc = "done", !.res = res, !.todo = {}, !.digest = {}]

\* A caller calls fetch(image, tag).
CallFetch(t) ==
    \E image \in ImageNames, tag \in Tags :
        /\ fthr[t].pc \in {"idle", "done"}
        /\ fops < MaxFetchOps
        /\ fops' = fops + 1
        /\ fthr' = [fthr EXCEPT ![t] =
              [FetchIdle EXCEPT !.op = "fetch", !.pc = "fetch_cached",
                 !.key = cache_key(image, tag),
                 !.cached = images[cache_key(image, tag)],
                 !.quiet = \A u \in Fetchers \ {t} :
                              \/ fthr[u].pc \in {"idle", "done"}
                              \/ fthr[u].key # cache_key(image, tag)]]
        /\ UNCHANGED <<lifecycle, util_state, net_state, cas_state, images, blobs>>

\* A lookup that never finds the entry.
CachedDigest_none(key) == {}

\* fetch: self.storage.get(IMAGES_INDEX_STORAGE_KEY, cache_key)
\* (fetcher.rs:101-102).
CachedDigest(key) == images[key]

\* fetch: return the digest stored for the key, if there is one
\* (fetcher.rs:101-105).
fetch_cached(t) ==
    /\ fthr[t].pc = "fetch_cached"
    /\ IF CachedDigest(fthr[t].key) # {}
       THEN fthr' = [fthr EXCEPT ![t] =
              [FetchReturn(t, "ok") EXCEPT !.out = CachedDigest(fthr[t].key)]]
       ELSE fthr' = [fthr EXCEPT ![t].pc = "resolve_manifest_digest"]
    /\ UNCHANGED <<lifecycle, util_state, net_state, cas_state, images, blobs, fops>>

\* resolve_manifest_digest: pull the manifest index of the tag and pick the
\* manifest of the platform; the request may fail, no manifest may match,
\* and a tag may point to another manifest the next time
\* (fetcher.rs:139-169).
resolve_manifest_digest(t) ==
    /\ fthr[t].pc = "resolve_manifest_digest"
    /\ \/ \E digest \in ManifestDigests :
             fthr' = [fthr EXCEPT ![t].digest = {digest},
                                  ![t].requested = TRUE,
                                  ![t].pc = "fetch_manifest"]
       \/ fthr' = [fthr EXCEPT ![t] =
                      [FetchReturn(t, "err") EXCEPT !.requested = TRUE]]
    /\ UNCHANGED <<lifecycle, util_state, net_state, cas_state, images, blobs, fops>>

\* fetch_manifest: pull the manifest and store it under its digest; then
\* the pulls of its config and layers start (fetcher.rs:171-184, 110-127).
fetch_manifest(t) ==
    /\ fthr[t].pc = "fetch_manifest"
    /\ LET digest == CHOOSE d \in fthr[t].digest : TRUE IN
       \/ /\ blobs' = blobs \cup {digest}
          /\ fthr' = [fthr EXCEPT ![t].requested = TRUE, ![t].wrote = TRUE,
                 ![t].todo = {ManifestOf(digest).config}
                                \cup ManifestOf(digest).layers,
                 ![t].pc = "try_join"]
       \/ /\ fthr' = [fthr EXCEPT ![t] =
                         [FetchReturn(t, "err") EXCEPT !.requested = TRUE]]
          /\ UNCHANGED blobs
    /\ UNCHANGED <<lifecycle, util_state, net_state, cas_state, images, fops>>

\* fetch_layer: a layer already in blobs is not pulled (fetcher.rs:196-206);
\* fetch_config has no such check (fetcher.rs:227-236).
LayerCached(t, blob) ==
    /\ blob \in blobs
    /\ blob \in ManifestOf(CHOOSE d \in fthr[t].digest : TRUE).layers

\* fetch_layer and fetch_config, in any order: pull the blob and store it
\* under its digest; the first pull that fails ends fetch with its error
\* and drops the pulls still running (fetcher.rs:186-236, 127-129).
pull(t) ==
    /\ fthr[t].pc = "try_join"
    /\ \E blob \in fthr[t].todo :
          IF LayerCached(t, blob)
          THEN /\ fthr' = [fthr EXCEPT ![t].todo = @ \ {blob}]
               /\ UNCHANGED blobs
          ELSE \/ /\ blobs' = blobs \cup {blob}
                  /\ fthr' = [fthr EXCEPT ![t].todo = @ \ {blob},
                                          ![t].requested = TRUE,
                                          ![t].wrote = TRUE]
               \/ /\ fthr' = [fthr EXCEPT ![t] =
                        [FetchReturn(t, "err") EXCEPT !.requested = TRUE,
                                                      !.failed = TRUE]]
                  /\ UNCHANGED blobs
    /\ UNCHANGED <<lifecycle, util_state, net_state, cas_state, images, fops>>

\* An await that goes on at once, whatever is still running.
Joined_early(todo) == TRUE

\* future::try_join(config, layers.try_collect()) is ready when every pull
\* has succeeded (fetcher.rs:127-129).
Joined(todo) == todo = {}

\* fetch: when all pulls are done, store the digest under the key
\* (fetcher.rs:131-132).
put_image(t) ==
    /\ fthr[t].pc = "try_join"
    /\ Joined(fthr[t].todo)
    /\ images' = [images EXCEPT ![fthr[t].key] = fthr[t].digest]
    /\ fthr' = [fthr EXCEPT ![t].pc = "flush", ![t].wrote = TRUE,
                            ![t].wrote_image = TRUE, ![t].todo = {}]
    /\ UNCHANGED <<lifecycle, util_state, net_state, cas_state, blobs, fops>>

\* fetch: flush the storage and return the digest; a flush that fails
\* ends fetch with its error (fetcher.rs:133-135).
flush(t) ==
    /\ fthr[t].pc = "flush"
    /\ \/ fthr' = [fthr EXCEPT ![t] =
                      [FetchReturn(t, "ok") EXCEPT !.out = fthr[t].digest]]
       \/ fthr' = [fthr EXCEPT ![t] = FetchReturn(t, "err")]
    /\ UNCHANGED <<lifecycle, util_state, net_state, cas_state, images, blobs, fops>>

\* The caller drops the future of fetch at one of its awaits.
cancel(t) ==
    /\ fthr[t].pc \in {"resolve_manifest_digest", "fetch_manifest",
                        "try_join", "flush"}
    /\ fthr' = [fthr EXCEPT ![t] = FetchReturn(t, "cancelled")]
    /\ UNCHANGED <<lifecycle, util_state, net_state, cas_state, images, blobs, fops>>

NextFetch ==
    \E t \in Fetchers :
        \/ CallFetch(t)
        \/ fetch_cached(t)
        \/ resolve_manifest_digest(t)
        \/ fetch_manifest(t)
        \/ pull(t)
        \/ put_image(t)
        \/ flush(t)
        \/ cancel(t)

InitFetch == LifecycleFresh /\ NetFresh /\ CasFresh /\ FetchFresh /\ UtilFresh

SpecFetch == InitFetch /\ [][NextFetch]_vars

\* ------------------------------------------------------------ properties
AllReturned == \A t \in Threads : thr[t].pc = "done"

Succeeded == {t \in Threads : thr[t].res = "ok"}

C2_OnlyLegalChanges ==
    [][\A k \in ProcessKeys :
          \/ StoredStatus(k)' = StoredStatus(k)
          \/ <<StoredStatus(k), StoredStatus(k)'>> \in
                {<<"absent", "Created">>, <<"Created", "Starting">>,
                 <<"Starting", "Running">>, <<"Starting", "Stopped">>,
                 <<"Running", "Stopped">>, <<"Stopped", "absent">>,
                 <<"Created", "absent">>}]_vars

\* C3: once create has returned successfully, and as long as nothing but
\* create, state and kill has been called, the main process record of the
\* container exists with status Created.
C3_CreateLeavesCreated ==
    \A t \in Threads :
        (/\ thr[t].op = "create" /\ thr[t].pc = "done" /\ thr[t].res = "ok"
         /\ \A u \in Threads : thr[u].op \in {"none", "create", "state", "kill"}
         /\ children = <<>>)
        => StoredStatus(process_id(thr[t].key, MAIN_PROCESS_EXEC_ID)) = "Created"

\* C4: a start that finds the main process record in Starting, Running or
\* Stopped returns an error at once: it spawns nothing and changes neither
\* the storage nor the host.
C4_StartOnExistingFails ==
    \A t \in Threads :
        (thr[t].op = "start" /\ thr[t].seen \in {"Starting", "Running", "Stopped"})
        => /\ thr[t].pc = "done"
           /\ thr[t].res = "err"
           /\ ~thr[t].spawned
           /\ ~thr[t].wrote

C4_Witness ==
    \E t \in Threads :
        /\ thr[t].op = "start" /\ thr[t].pc = "done" /\ thr[t].seen = "Running"
        /\ StoredStatus(Key(t)) = "Running"

\* C5: a kill, whatever the signal, that finds the process record in
\* Created, Starting or Stopped returns an error at once: it delivers no
\* signal and changes neither the storage nor the host.
C5_KillNotRunningFails ==
    \A t \in Threads :
        (thr[t].op = "kill" /\ thr[t].seen \in {"Created", "Starting", "Stopped"})
        => /\ thr[t].pc = "done"
           /\ thr[t].res = "err"
           /\ ~thr[t].signalled
           /\ ~thr[t].wrote

C5_Witness ==
    \E t \in Threads :
        /\ thr[t].op = "kill" /\ thr[t].pc = "done" /\ thr[t].seen = "Stopped"
        /\ StoredStatus(Key(t)) = "Stopped"

\* C6: no step removes a process record whose status is Starting or
\* Running: a record that is removed is Stopped or Created when it goes.
C6_OnlyStoppedOrCreatedDeleted ==
    [][\A k \in ProcessKeys :
          (container_processes[k] # {} /\ container_processes'[k] = {})
          => StoredStatus(k) \in {"Stopped", "Created"}]_vars

\* C7 as stated: whenever a stored process record of container c is
\* Running, a jail named c exists.
C7_RunningHasJail ==
    \A k \in ProcessKeys :
        StoredStatus(k) = "Running" => jails[k[1]] # {}

\* C7 as amended: whenever a stored process record of container c is
\* Running and the process it records has not exited, a jail named c
\* exists, and it is the jail the record names.
C7_RunningAliveHasJail ==
    \A k \in ProcessKeys : \A r \in container_processes[k] :
        (/\ r.status = "Running"
         /\ r.pid \in 1..Len(children)
         /\ children[r.pid].state = "running")
        => \E j \in jails[k[1]] : j.jid = r.jid

C7_Witness ==
    \E k \in ProcessKeys : \E r \in container_processes[k] :
        /\ r.status = "Running"
        /\ r.pid \in 1..Len(children)
        /\ children[r.pid].state = "running"
        /\ \E j \in jails[k[1]] : j.jid = r.jid /\ ~j.persist

\* C8: state on a Running record reports Stopped when no jail named after
\* the container exists and Running when it exists; for every other
\* stored status it reports the stored status.
C8_StateReport ==
    \A t \in Threads :
        (thr[t].op = "state" /\ thr[t].pc = "done" /\ thr[t].res = "ok")
        => thr[t].out =
              IF thr[t].seen = "Running"
              THEN (IF thr[t].arg = "nojail" THEN "Stopped" ELSE "Running")
              ELSE thr[t].seen

\* C9: a create whose id is in use, from its call to its return, by a
\* container that was created and not deleted returns an error.
C9_CreateInUseFails ==
    \A t \in Threads :
        (thr[t].op = "create" /\ thr[t].seen = "in_use" /\ thr[t].pc = "done")
        => thr[t].res = "err"

\* C10: between a successful create and the delete of the container no
\* step changes the config stored for it.
C10_ConfigFrozen ==
    [][\A c \in Containers :
          (created[c] /\ created'[c]) =>
              container_config'[c] = container_config[c]]_vars

\* A delete of the main process of a container has returned, and the
\* container was Stopped, Created, or created and never started.
DeleteReturned(t) ==
    /\ thr[t].op = "delete" /\ thr[t].pc = "done"
    /\ thr[t].exec_id = MAIN_PROCESS_EXEC_ID
    /\ thr[t].seen \in {"Stopped", "Created", "unstarted"}

\* C11: after the delete of a Stopped or Created container has returned,
\* none of the mounts of the container is still mounted.
C11_DeleteUnmountsAll ==
    \A t \in Threads :
        (DeleteReturned(t) /\ \A u \in Threads : thr[u].op # "create")
        => mounted[thr[t].key] = <<>>

\* C12: after the delete of a Stopped or Created (never started) container
\* has returned, no jail named after the container exists.
C12_DeleteRemovesJail ==
    \A t \in Threads :
        (DeleteReturned(t) /\ \A u \in Threads : thr[u].op # "create")
        => jails[thr[t].key] = {}

\* C13: after cleanup has run to its end for a container, the main process
\* record, the stored config and the address record of the container are
\* all absent.
C13_DeleteClearsStorage ==
    \A t \in Threads :
        (/\ DeleteReturned(t) /\ thr[t].out = "cleaned"
         /\ \A u \in Threads \ {t} : thr[u].pc \in {"idle", "done"}
         /\ \A u \in Threads : thr[u].op # "create")
        => /\ get_process(thr[t].key, MAIN_PROCESS_EXEC_ID) = {}
           /\ container_config[thr[t].key] = {}
           /\ ~network[thr[t].key]

\* ------------------------------------------------- properties of the network
NetQuiet == \A t \in NetCallers : nthr[t].pc \in {"idle", "done"}

\* How often an address is in the pool; a heap not stored yet stands for
\* the whole range.
InPool(a) ==
    IF network_heap = {} THEN 1 ELSE (CHOOSE h \in network_heap : TRUE)[a]

\* The address record stored for a container, {} without one.
AddressRecord(k) ==
    IF container_address = {} THEN {}
    ELSE (CHOOSE c \in container_address : TRUE)[k]

\* The containers an address is recorded for.
RecordedFor(a) ==
    {k \in NetKeys : \E r \in AddressRecord(k) : a \in {r.host, r.container}}

\* C14: whenever no network call is in progress, every address of the
\* subnet is in exactly one place: the pool, or the record of exactly one
\* container; the address the bridge holds is counted as placed.
C14_AddressPartition ==
    NetQuiet =>
        \A a \in Subnet :
            InPool(a) + Cardinality(RecordedFor(a))
                + (IF a \in bridge THEN 1 ELSE 0) = 1

\* C15: a teardown that has returned successfully has pushed the host and
\* the container address once each, neither is in the heap more than once
\* and the record of the container is gone (unless a setup has recorded
\* the container anew); a teardown that has failed has pushed nothing.
C15_TeardownReturnsAddresses ==
    \A t \in NetCallers :
        (nthr[t].op = "teardown" /\ nthr[t].pc = "done")
        => IF nthr[t].res = "ok"
           THEN /\ \A a \in nthr[t].host \cup nthr[t].container :
                      /\ Len(SelectSeq(nthr[t].pushed, LAMBDA x : x = a)) = 1
                      /\ InPool(a) <= 1
                /\ \/ AddressRecord(nthr[t].key) = {}
                   \/ \E u \in NetCallers : nthr[u].set_up
           ELSE nthr[t].pushed = <<>>

\* C16: get_address never returns the broadcast address of the subnet.
C16_NeverBroadcast ==
    \A t \in NetCallers : broadcast \notin nthr[t].got

\* C17: no call returns the compare-and-swap conflict of get_address or
\* free_address to its caller.
C17_NoConflictReturned ==
    \A t \in NetCallers :
        nthr[t].conflict \notin {"get_address", "free_address"}

\* ------------------------------------------------- properties of the storage
\* The value stored, as the caller of Storage::get reads it.
StoredValue(bytes) == {deserialize(b) : b \in bytes}

\* C18: compare_and_swap replaces the stored value by new (removes the
\* key when new is None) if and only if the value stored before equals old
\* (the key was absent when old is None); otherwise it returns the error
\* "Compare and swap conflict" and leaves the stored value unchanged.
C18_CompareAndSwap ==
    cas.res # "none" =>
        IF StoredValue(cas.before) = cas.old
        THEN cas.res = "ok" /\ StoredValue(kv) = cas.new
        ELSE cas.res = "Compare and swap conflict" /\ kv = cas.before

\* A swap of one stored value for another was refused: the value stored
\* was not the old one.
C18_Witness ==
    /\ cas.res = "Compare and swap conflict"
    /\ cas.old # {} /\ cas.before # {} /\ cas.new # {}
    /\ StoredValue(cas.before) # cas.old

\* ------------------------------------------------- properties of the fetcher
\* C19: an entry of images names a manifest that is in blobs together with
\* the config and every layer it references; a fetch one of whose pulls
\* has failed returns an error and has not written images.
C19_ImageAfterBlobs ==
    /\ \A k \in CacheKeys : \A d \in images[k] :
          /\ d \in blobs
          /\ ManifestOf(d).config \in blobs
          /\ ManifestOf(d).layers \subseteq blobs
    /\ \A t \in Fetchers :
          fthr[t].failed =>
              /\ fthr[t].pc = "done" /\ fthr[t].res = "err"
              /\ ~fthr[t].wrote_image

\* An image is stored while another fetch has failed on a layer or config.
C19_Witness ==
    /\ \E k \in CacheKeys : images[k] # {}
    /\ \E t \in Fetchers : fthr[t].failed

\* C20: a fetch called when images holds an entry for its key returns
\* successfully a stored digest, without a registry request and without
\* writing blobs or images; with no other fetch of the key running at the
\* call, it returns the digest that was stored at the call.
C20_CachedFetch ==
    \A t \in Fetchers :
        (fthr[t].cached # {} /\ fthr[t].pc = "done")
        => /\ fthr[t].res = "ok"
           /\ fthr[t].out # {}
           /\ ~fthr[t].requested
           /\ ~fthr[t].wrote
           /\ fthr[t].quiet => fthr[t].out = fthr[t].cached

\* A fetch of "nginx" has returned the digest stored by a fetch of
\* "library/nginx" or the other way round.
C20_Witness ==
    \E t \in Fetchers :
        /\ fthr[t].cached # {} /\ fthr[t].quiet
        /\ fthr[t].pc = "done" /\ fthr[t].key = cache_key(<<"nginx">>, "latest")
        /\ \E u \in Fetchers \ {t} : fthr[u].wrote_image /\ fthr[u].key = fthr[t].key

\* ------------------------------------------------------- pulling one blob
\* Manifest::pull, Config::pull and fetch_layer are called with a digest:
\* fetch_layer answers from blobs when the digest is stored (fetcher.rs:
\* 199-209); otherwise the request is sent, and fails or is answered.
Pull(kind, digest, size, body) ==
    /\ rd.pc = "idle"
    /\ rd.n < MaxPulls
    /\ LET call == [rd EXCEPT !.kind = kind, !.digest = digest,
                              !.size = size, !.body = body, !.n = @ + 1,
                              !.cached = (digest \in blobs)]
       IN  IF kind = "layer" /\ call.cached
           THEN rd' = [call EXCEPT
                    !.updates = <<[status |-> "Cached", digest |-> digest]>>,
                    !.pc = "done", !.res = "ok"]
           ELSE \/ rd' = [call EXCEPT !.pc = "read"]
                \/ rd' = [call EXCEPT !.pc = "done", !.res = "request failed"]
    /\ UNCHANGED <<pull_frame, blobs>>

\* One step of try_fold over bytes_stream (reqwest_ext.rs:25-33): the next
\* chunk is appended and the callback of Layer::pull reports the length
\* read so far (fetcher.rs:211-218), or the stream fails.
try_fold ==
    /\ rd.pc = "read"
    /\ rd.agg < Len(rd.body)
    /\ \/ \E chunk \in 1..(Len(rd.body) - rd.agg) :
            rd' = [rd EXCEPT
                !.agg = @ + chunk,
                !.updates =
                    IF rd.kind = "layer"
                    THEN Append(@, [status |-> "InProgress",
                                    digest |-> rd.digest,
                                    n |-> rd.agg + chunk, size |-> rd.size])
                    ELSE @]
       \/ rd' = [rd EXCEPT !.pc = "done", !.res = "stream failed"]
    /\ UNCHANGED <<pull_frame, blobs>>

\* The characters of the digest read() compares with the hash: those
\* after the first seven, `digest.unwrap()[7..]`, which panics on a
\* shorter string.
PrefixLen == 7

\* The end of read() (reqwest_ext.rs:35-41) and what the callers do with
\* the body: a manifest or config is parsed, every blob is put.
read_check(digest, body) ==
    IF Len(digest) < PrefixLen THEN "panic"
    ELSE IF SubSeq(digest, PrefixLen + 1, Len(digest)) # hex_sha256(body)
         THEN "Content hash mismatch."
         ELSE "ok"

read ==
    /\ rd.pc = "read"
    /\ rd.agg = Len(rd.body)
    /\ LET checked == read_check(rd.digest, rd.body)
       IN  IF checked # "ok"
           THEN rd' = [rd EXCEPT !.pc = "done", !.res = checked]
                /\ UNCHANGED blobs
           ELSE \/ /\ rd.kind # "layer"
                   /\ rd' = [rd EXCEPT !.pc = "done", !.res = "parse failed"]
                   /\ UNCHANGED blobs
                \/ /\ rd' = [rd EXCEPT !.pc = "done", !.res = "put failed"]
                   /\ UNCHANGED blobs
                \/ /\ rd' = [rd EXCEPT !.pc = "done", !.res = "ok"]
                   /\ blobs' = blobs \cup {rd.digest}
    /\ UNCHANGED pull_frame

\* The pull has returned; the next one starts with an empty sink.
PullReturn ==
    /\ rd.pc = "done"
    /\ rd' = [PullIdle EXCEPT !.n = rd.n]
    /\ UNCHANGED <<pull_frame, blobs>>

NextPull ==
    \/ \E kind \in {"manifest", "config", "layer"}, digest \in DigestStrings,
          size \in 0..MaxBodyLen, body \in Bodies :
            Pull(kind, digest, size, body)
    \/ try_fold
    \/ read
    \/ PullReturn

SpecPull == InitFresh /\ [][NextPull]_vars

\* The registry has answered the pull, and the body, read in full, differs
\* in its SHA-256 from the requested digest.
HashDiffers ==
    /\ rd.pc = "done"
    /\ rd.res \notin {"request failed", "stream failed"}
    /\ rd.kind # ""
    /\ ~(rd.kind = "layer" /\ rd.cached)
    /\ rd.digest \notin
          {prefix \o hex_sha256(rd.body) :
              prefix \in {<<"s", "h", "a", "2", "5", "6", ":">>, <<>>}}

\* C21: a manifest, config or layer pull whose response body, read in
\* full, has a SHA-256 different from the requested digest returns the
\* error "Content hash mismatch." and does not put the digest into blobs.
C21_HashMismatch ==
    HashDiffers =>
        /\ rd.res = "Content hash mismatch."
        /\ rd.digest \in blobs => rd.cached

\* C27: a layer pull that succeeds has sent, when the layer was not in
\* blobs at its start, a last update InProgress(digest, n, size) with
\* n = size, and when the layer was in blobs exactly one Cached(digest) and
\* no InProgress.
C27_FinalProgress ==
    (rd.pc = "done" /\ rd.kind = "layer" /\ rd.res = "ok")
    => IF rd.cached
       THEN rd.updates = <<[status |-> "Cached", digest |-> rd.digest]>>
       ELSE /\ rd.updates # <<>>
            /\ rd.updates[Len(rd.updates)] =
                  [status |-> "InProgress", digest |-> rd.digest,
                   n |-> rd.size, size |-> rd.size]

\* ------------------------------------------------- resolving a manifest
\* manifests.iter().find(..).map(..) of resolve_manifest_digest
\* (fetcher.rs:157-167): the digest of the first manifest whose platform
\* has the architecture of the fetcher and an os of its list.
RECURSIVE find_last(_, _, _)
find_last(manifests, architecture, os) ==
    IF manifests = <<>> THEN {}
    ELSE LET entry == manifests[Len(manifests)] IN
         IF \E platform \in entry.platform :
                platform.architecture = architecture /\ platform.os \in os
         THEN {entry.digest}
         ELSE find_last(SubSeq(manifests, 1, Len(manifests) - 1),
                        architecture, os)

RECURSIVE find(_, _, _)
find(manifests, architecture, os) ==
    IF manifests = <<>> THEN {}
    ELSE IF \E platform \in Head(manifests).platform :
                platform.architecture = architecture /\ platform.os \in os
         THEN {Head(manifests).digest}
         ELSE find(Tail(manifests), architecture, os)

\* fetch up to resolve_manifest_digest (fetcher.rs:99-108, 139-172): the
\* index is pulled, or the request fails; no matching manifest is an error
\* fetch returns at once.
resolve_index(index, architecture, os) ==
    /\ ix.pc = "idle"
    /\ \/ LET digest == find(index, architecture, os) IN
          ix' = [ix EXCEPT !.index = index, !.architecture = architecture,
                           !.os = os, !.out = digest,
                           !.pc = IF digest = {} THEN "done" ELSE "fetching",
                           !.res = IF digest = {}
                                   THEN "Could not find the appropriate manifest"
                                   ELSE ""]
       \/ ix' = [ix EXCEPT !.pc = "done",
                           !.res = "Failed to fetch manifest index"]
    /\ UNCHANGED <<ix_frame, images>>

\* The rest of fetch (fetcher.rs:110-136): the pulls fail, or the digest
\* is put into images.
resolved_fetch ==
    /\ ix.pc = "fetching"
    /\ \/ /\ ix' = [ix EXCEPT !.pc = "done", !.res = "pull failed"]
          /\ UNCHANGED images
       \/ /\ ix' = [ix EXCEPT !.pc = "done", !.res = "ok"]
          /\ images' = [images EXCEPT
                 ![cache_key(<<"nginx">>, "latest")] = ix.out]
    /\ UNCHANGED ix_frame

NextResolve ==
    \/ \E index \in ManifestIndexes, architecture \in {"amd64", "arm64"},
          os \in SUBSET {"linux", "freebsd"} :
            resolve_index(index, architecture, os)
    \/ resolved_fetch

SpecResolve == InitFresh /\ [][NextResolve]_vars

\* The positions of the index whose manifest has a platform of the target.
Matching ==
    {i \in 1..Len(ix.index) :
        /\ ix.index[i].platform # {}
        /\ \A platform \in ix.index[i].platform :
              /\ platform.architecture = ix.architecture
              /\ platform.os \in ix.os}

\* C22: resolution returns the digest of the first manifest of the index,
\* in index order, whose platform has the target architecture and an os
\* of the target set; manifests without a platform never match; if none
\* matches, fetch fails and images is not written.
C22_FirstMatch ==
    (ix.pc # "idle" /\ ix.res # "Failed to fetch manifest index")
    => IF Matching = {}
       THEN /\ ix.pc = "done" /\ ix.res \notin {"", "ok"}
            /\ \A k \in CacheKeys : images[k] = {}
       ELSE \E i \in Matching :
               /\ \A j \in Matching : i <= j
               /\ ix.out = {ix.index[i].digest}

\* The second manifest of the index was chosen after a first one without
\* a platform, or two manifests matched and the first one was chosen.
C22_Witness ==
    /\ ix.res = "ok"
    /\ Len(ix.index) >= 2
    /\ ix.out = {"m2"}
    /\ \/ ix.index[1].platform = {} /\ ix.index[1].digest = "m1"
       \/ Matching = {1, 2} /\ ix.index[2].digest = "m1"

\* ---------------------------------------------------- unpacking an image
\* Path::file_name and Path::parent of a relative path with a file name.
file_name(path) == path[Len(path)]
parent(path) == SubSeq(path, 1, Len(path) - 1)

\* str::starts_with(".wh.") on a file name.
starts_with_wh(name) == Head(name) = ".wh."

\* The paths at or below a path.
Below(path, fs) ==
    {q \in fs : Len(q) >= Len(path) /\ SubSeq(q, 1, Len(path)) = path}

\* fs::remove_file and fs::remove_dir_all: both fail when the path does
\* not exist.
remove_file(path, fs) ==
    IF path \in fs /\ Below(path, fs) = {path}
    THEN [ok |-> TRUE, fs |-> fs \ {path}]
    ELSE [ok |-> FALSE, fs |-> fs]

remove_dir_all(path, fs) ==
    IF path \in fs
    THEN [ok |-> TRUE, fs |-> fs \ Below(path, fs)]
    ELSE [ok |-> FALSE, fs |-> fs]

\* Unpacker::handle_whiteouts (unpacker.rs:61-89): for every entry in
\* order, ".wh..wh..opq" removes the parent directory and any other name
\* starting with ".wh." removes the path of the entry itself; the first
\* failure ends the scan.
RECURSIVE handle_whiteouts(_, _)
handle_whiteouts(entries, fs) ==
    IF entries = <<>> THEN [ok |-> TRUE, fs |-> fs]
    ELSE LET entry == Head(entries)
             filename == file_name(entry)
             step == IF filename = <<".wh.", ".wh.", ".opq">>
                     THEN remove_dir_all(parent(entry), fs)
                     ELSE IF starts_with_wh(filename)
                          THEN remove_file(entry, fs)
                          ELSE [ok |-> TRUE, fs |-> fs]
         IN  IF step.ok THEN handle_whiteouts(Tail(entries), step.fs)
             ELSE step

\* Archive::extract with the filter of unpack_layer (unpacker.rs:48-53):
\* every entry whose file name does not start with ".wh." is written,
\* with the directories leading to it.
extract(entries, fs) ==
    fs \cup UNION {{SubSeq(entries[i], 1, n) : n \in 1..Len(entries[i])} :
                      i \in {j \in 1..Len(entries) :
                                ~starts_with_wh(file_name(entries[j]))}}

\* Unpacker::unpack (unpacker.rs:23-37) with the layers of the manifest.
unpack(layers) ==
    /\ unp.pc = "idle"
    /\ unp' = [unp EXCEPT !.pc = "unpack_layer", !.layers = layers]
    /\ UNCHANGED unp_frame

\* unpack_layer with the two calls swapped: the layer is extracted, then
\* its whiteouts are handled.
unpack_layer_extract_first ==
    /\ unp.pc = "unpack_layer"
    /\ IF unp.layers = <<>>
       THEN unp' = [unp EXCEPT !.pc = "done", !.res = "ok"]
       ELSE LET layer == Head(unp.layers)
                handled == handle_whiteouts(layer, extract(layer, unp.fs))
            IN  unp' = [unp EXCEPT
                    !.last = layer, !.before = unp.fs,
                    !.layers = Tail(@),
                    !.fs = handled.fs,
                    !.pc = IF handled.ok THEN @ ELSE "done",
                    !.res = IF handled.ok THEN @ ELSE "err"]
    /\ UNCHANGED unp_frame

\* Unpacker::unpack_layer (unpacker.rs:39-59) of the next layer: the
\* whiteouts are handled, then the layer is extracted; an error leaves
\* unpack.
unpack_layer ==
    /\ unp.pc = "unpack_layer"
    /\ IF unp.layers = <<>>
       THEN unp' = [unp EXCEPT !.pc = "done", !.res = "ok"]
       ELSE LET layer == Head(unp.layers)
                handled == handle_whiteouts(layer, unp.fs)
            IN  unp' = [unp EXCEPT
                    !.last = layer, !.before = unp.fs,
                    !.layers = Tail(@),
                    !.fs = IF handled.ok THEN extract(layer, handled.fs)
                           ELSE handled.fs,
                    !.pc = IF handled.ok THEN @ ELSE "done",
                    !.res = IF handled.ok THEN @ ELSE "err"]
    /\ UNCHANGED unp_frame

NextUnpack ==
    \/ \E layers \in LayerLists : unpack(layers)
    \/ unpack_layer

SpecUnpack == InitFresh /\ [][NextUnpack]_vars

\* The entries of a layer, as a set.
Entries(layer) == {layer[i] : i \in 1..Len(layer)}

\* C23: after a layer with the entry dir/.wh.file is unpacked, dir/file
\* left by the earlier layers is not on the destination and the layer was
\* unpacked without error; no path whose file name starts with ".wh." is
\* ever on the destination.
C23_Whiteout ==
    /\ (/\ <<<<"dir">>, <<".wh.", "file">>>> \in Entries(unp.last)
        /\ <<<<"dir">>, <<"file">>>> \in unp.before
        /\ Entries(unp.last) \subseteq
              {<<<<"dir">>, <<".wh.", "file">>>>, <<<<"dir">>, <<"keep">>>>})
       => /\ unp.res # "err"
          /\ <<<<"dir">>, <<"file">>>> \notin unp.fs
    /\ \A path \in unp.fs : ~starts_with_wh(file_name(path))

\* ------------------------------------------------------- the user string
\* nom's alphanumeric1: the longest prefix of letters and digits, which
\* must not be empty.
alphanumeric1(input) ==
    LET n == CHOOSE k \in 0..Len(input) :
                 /\ \A i \in 1..k : input[i] # ":"
                 /\ k < Len(input) => input[k + 1] = ":"
    IN  IF n = 0 THEN {}
        ELSE {[token |-> SubSeq(input, 1, n),
               rest |-> SubSeq(input, n + 1, Len(input))]}

\* The value of a string of decimal digits.
RECURSIVE decimal(_)
decimal(token) ==
    IF token = <<>> THEN 0
    ELSE decimal(SubSeq(token, 1, Len(token) - 1)) * 10
         + (IF token[Len(token)] = "1" THEN 1 ELSE 9)

\* u32::from_str: digits only, and a value of at most u32::MAX.
from_str_u32(token) ==
    IF (\A i \in 1..Len(token) : token[i] \in Digits)
       /\ decimal(token) <= U32Max
    THEN {decimal(token)}
    ELSE {}

\* separated_pair(identifier, tag(":"), identifier) (user.rs:25-31), before
\* the conversion of the two identifiers.
pair(input) ==
    UNION {{<<first.token, second.token>> :
               second \in alphanumeric1(Tail(first.rest))} :
           first \in {f \in alphanumeric1(input) : f.rest # <<>>}}

\* find_entry (user.rs:33-49) on a file that exists: the first entry the
\* predicate accepts.
find_entry(file, Accepts(_)) ==
    {entry \in UNION {{items[i] : i \in 1..Len(items)} : items \in file} :
        Accepts(entry)}

\* The alternatives of parse in the order alt tries them (user.rs:103-136):
\* the pair each yields, if any, and the files it opens.
Alternatives_names_first(user, passwd, group) ==
    LET ids == pair(user)
        users(name) == find_entry(passwd, LAMBDA e : e.username = name)
        groups(name) == find_entry(group, LAMBDA e : e.groupname = name)
    IN  << [out |-> {<<u.uid, g.gid>> :
                        u \in UNION {users(p[1]) : p \in ids},
                        g \in UNION {groups(p[2]) : p \in ids}},
            reads |-> IF ids = {} THEN {} ELSE {"etc/passwd"}],
           [out |-> UNION {{<<uid, gid>> : uid \in from_str_u32(p[1]),
                                          gid \in from_str_u32(p[2])} :
                              p \in ids},
            reads |-> {}] >>

Alternatives(user, passwd, group) ==
    LET ids == pair(user)
        id == {t.token : t \in alphanumeric1(user)}
        users(name) == find_entry(passwd, LAMBDA e : e.username = name)
        groups(name) == find_entry(group, LAMBDA e : e.groupname = name)
        uid_gid ==
            [out |-> UNION {{<<uid, gid>> : uid \in from_str_u32(p[1]),
                                          gid \in from_str_u32(p[2])} :
                              p \in ids},
             reads |-> {}]
        uid_group ==
            [out |-> UNION {{<<uid, g.gid>> : uid \in from_str_u32(p[1]),
                                            g \in groups(p[2])} : p \in ids},
             reads |-> IF \E p \in ids : from_str_u32(p[1]) # {}
                       THEN {"etc/group"} ELSE {}]
        user_group ==
            [out |-> UNION {{<<u.uid, g.gid>> : u \in users(p[1]),
                                              g \in groups(p[2])} : p \in ids},
             reads |-> IF ids = {} THEN {}
                       ELSE IF \E p \in ids : users(p[1]) # {}
                            THEN {"etc/passwd", "etc/group"}
                            ELSE {"etc/passwd"}]
        user_gid ==
            [out |-> UNION {{<<u.uid, gid>> : u \in users(p[1]),
                                            gid \in from_str_u32(p[2])} :
                               p \in ids},
             reads |-> IF \E p \in ids : from_str_u32(p[2]) # {}
                       THEN {"etc/passwd"} ELSE {}]
        username ==
            [out |-> UNION {{<<u.uid, u.gid>> : u \in users(name)} :
                               name \in id},
             reads |-> IF id = {} THEN {} ELSE {"etc/passwd"}]
        uid ==
            [out |-> {<<u.uid, u.gid>> :
                        u \in UNION {find_entry(passwd, LAMBDA e : e.uid = n) :
                                        n \in UNION {from_str_u32(t) : t \in id}}},
             reads |-> IF \E t \in id : from_str_u32(t) # {}
                       THEN {"etc/passwd"} ELSE {}]
    IN  <<uid_gid, uid_group, user_group, user_gid, username, uid>>

\* runtime_config::user::parse (user.rs:101-143): alt returns what the
\* first alternative that succeeds yields, and fails when none does.
parse(user, passwd, group) ==
    /\ usr.pc = "idle"
    /\ LET tried == Alternatives(user, passwd, group)
           good == {i \in 1..Len(tried) : tried[i].out # {}}
           last == IF good = {} THEN Len(tried)
                   ELSE CHOOSE i \in good : \A j \in good : i <= j
       IN  usr' = [pc |-> "done", user |-> user, passwd |-> passwd,
                   group |-> group,
                   res |-> IF good = {} THEN "err" ELSE "ok",
                   out |-> IF good = {} THEN <<>>
                           ELSE CHOOSE o \in tried[last].out : TRUE,
                   reads |-> UNION {tried[i].reads : i \in 1..last}]
    /\ UNCHANGED usr_frame

NextUser ==
    \E user \in UserStrings, passwd \in PasswdFiles, group \in GroupFiles :
        parse(user, passwd, group)

SpecUser == InitFresh /\ [][NextUser]_vars

\* The user string parsed is "U:G" with U and G strings of decimal digits.
DecimalPair ==
    /\ usr.pc = "done"
    /\ \E n \in 1..(Len(usr.user) - 2) :
          /\ usr.user[n + 1] = ":"
          /\ \A i \in 1..Len(usr.user) : i # n + 1 => usr.user[i] \in Digits

\* The numbers U and G of such a string.
DecimalU ==
    LET colon == CHOOSE n \in 1..Len(usr.user) : usr.user[n] = ":"
    IN  decimal(SubSeq(usr.user, 1, colon - 1))
DecimalG ==
    LET colon == CHOOSE n \in 1..Len(usr.user) : usr.user[n] = ":"
    IN  decimal(SubSeq(usr.user, colon + 1, Len(usr.user)))

RECURSIVE split(_)
split(path) ==
    IF \A i \in 1..Len(path) : path[i] # "/" THEN <<path>>
    ELSE LET i == CHOOSE k \in 1..Len(path) :
                     path[k] = "/" /\ \A j \in 1..(k - 1) : path[j] # "/"
         IN  <<SubSeq(path, 1, i - 1)>> \o split(SubSeq(path, i + 1, Len(path)))

\* Path::components on Unix: RootDir for a leading separator, CurDir for
\* a leading ".", ParentDir for "..", Normal for every other piece; empty
\* pieces and "." after the start are skipped.
components_dots(path) ==
    LET pieces == split(path)
        kind(i) == IF pieces[i] = <<".", ".">> THEN "Normal"
                   ELSE IF pieces[i] = <<".">> THEN "CurDir"
                   ELSE "Normal"
        all == [i \in 1..Len(pieces) |-> [kind |-> kind(i), name |-> pieces[i]]]
        kept == SelectSeq(all, LAMBDA c :
                    c.name # <<>> /\ (c.kind = "CurDir" => c = all[1]))
    IN  IF path # <<>> /\ path[1] = "/"
        THEN <<[kind |-> "RootDir", name |-> <<"/">>]>> \o kept
        ELSE kept

components(path) ==
    LET pieces == split(path)
        kind(i) == IF pieces[i] = <<".", ".">> THEN "ParentDir"
                   ELSE IF pieces[i] = <<".">> THEN "CurDir"
                   ELSE "Normal"
        all == [i \in 1..Len(pieces) |-> [kind |-> kind(i), name |-> pieces[i]]]
        kept == SelectSeq(all, LAMBDA c :
                    c.name # <<>> /\ (c.kind = "CurDir" => c = all[1]))
    IN  IF path # <<>> /\ path[1] = "/"
        THEN <<[kind |-> "RootDir", name |-> <<"/">>]>> \o kept
        ELSE kept

\* PathBuf::push of a relative component: a separator is added unless the
\* path is empty or ends with one.
push(result, component) ==
    IF result = <<>> \/ result[Len(result)] = "/"
    THEN result \o component
    ELSE result \o <<"/">> \o component

\* prefixed_destination (filesystem.rs:103-117).
RECURSIVE push_normal(_, _)
push_normal(result, todo) ==
    IF todo = <<>> THEN result
    ELSE push_normal(IF Head(todo).kind = "Normal"
                     THEN push(result, Head(todo).name)
                     ELSE result,
                     Tail(todo))

prefixed_destination(rootfs, destination) ==
    /\ pth.pc = "idle"
    /\ pth' = [pc |-> "done", rootfs |-> rootfs, destination |-> destination,
               out |-> push_normal(rootfs, components(destination))]
    /\ UNCHANGED pth_frame

NextPath ==
    \E rootfs \in Rootfs, destination \in Destinations :
        prefixed_destination(rootfs, destination)

SpecPath == InitFresh /\ [][NextPath]_vars

\* The pieces of a path that are names: not empty, not "." and not "..".
Names(path) ==
    SelectSeq(split(path), LAMBDA piece : piece \notin {<<>>, <<".">>, <<".", ".">>})

\* C25: the result of prefixed_destination starts with rootfs and goes on
\* with exactly the names of destination, in their order; it has no ".."
\* and no "." after rootfs, so it does not lie outside rootfs.
C25_PrefixedDestination ==
    pth.pc = "done" =>
        /\ Len(pth.out) >= Len(pth.rootfs)
        /\ SubSeq(pth.out, 1, Len(pth.rootfs)) = pth.rootfs
        /\ LET suffix == SubSeq(pth.out, Len(pth.rootfs) + 1, Len(pth.out))
           IN  /\ Names(suffix) = Names(pth.destination)
               /\ \A i \in 1..Len(split(suffix)) :
                     split(suffix)[i] \notin {<<".">>, <<".", ".">>}

\* The destination "/../", which climbs above the root, was prefixed: the
\* result is rootfs itself.
C25_Witness ==
    /\ pth.pc = "done"
    /\ pth.destination = <<"/", ".", ".", "/">>
    /\ pth.out = pth.rootfs

\* -------------------------------------------------------------- devfs
\* The rules prepare_devfs applies, in its order (filesystem.rs:93-97).
devfs_operations_hide_last ==
    [i \in 1..Len(DEFAULT_DEVICES) |->
        [bacts |-> "DRB_UNHIDE", pathptrn |-> DEFAULT_DEVICES[i]]]
    \o <<[bacts |-> "DRB_HIDE", pathptrn |-> <<>>]>>

devfs_operations ==
    <<[bacts |-> "DRB_HIDE", pathptrn |-> <<>>]>>
    \o [i \in 1..Len(DEFAULT_DEVICES) |->
           [bacts |-> "DRB_UNHIDE", pathptrn |-> DEFAULT_DEVICES[i]]]

\* The match of a rule's path pattern against a node, name by name: "*"
\* matches any one name. A rule without a pattern (icond = 0) matches
\* every node.
fnmatch(pathptrn, node) ==
    \/ pathptrn = <<>>
    \/ /\ Len(pathptrn) = Len(node)
       /\ \A i \in 1..Len(node) : pathptrn[i] \in {"*", node[i]}

\* Mountable::mount of a mount of type devfs (filesystem.rs:19-35, 76):
\* mount::mount fails, or the devfs is mounted with all its nodes visible.
mount_devfs(nodes) ==
    /\ dev.pc = "idle"
    /\ \/ dev' = [dev EXCEPT !.pc = "done", !.res = "err"]
       \/ dev' = [dev EXCEPT !.pc = "prepare_devfs", !.nodes = nodes]
    /\ UNCHANGED dev_frame

\* devfs::apply of the next rule of prepare_devfs (devfs.rs:45-70,
\* filesystem.rs:93-97): the ioctl fails and mount returns the error, or
\* the rule hides or unhides the nodes it matches; after the last rule
\* mount returns.
prepare_devfs ==
    /\ dev.pc = "prepare_devfs"
    /\ IF Len(dev.applied) = Len(devfs_operations)
       THEN dev' = [dev EXCEPT !.pc = "done", !.res = "ok"]
       ELSE LET rule == devfs_operations[Len(dev.applied) + 1]
                matched == {n \in dev.nodes : fnmatch(rule.pathptrn, n)}
            IN  \/ dev' = [dev EXCEPT !.pc = "done", !.res = "err",
                                      !.failed = TRUE]
                \/ dev' = [dev EXCEPT
                       !.applied = Append(@, rule),
                       !.hidden = IF rule.bacts = "DRB_HIDE"
                                  THEN @ \cup matched ELSE @ \ matched]
    /\ UNCHANGED dev_frame

NextDevfs ==
    \/ \E nodes \in SUBSET OtherNodes : mount_devfs(CommonNodes \cup nodes)
    \/ prepare_devfs

SpecDevfs == InitFresh /\ [][NextDevfs]_vars

\* The nodes of the default set: null, zero, full, random, urandom, tty,
\* console, pts, the nodes directly in pts, and fd.
InDefaultSet(node) ==
    \/ node \in {<<"null">>, <<"zero">>, <<"full">>, <<"random">>,
                 <<"urandom">>, <<"tty">>, <<"console">>, <<"pts">>, <<"fd">>}
    \/ Len(node) = 2 /\ node[1] = "pts"

\* C26: the first rule applied to a mounted devfs is hide-all and every
\* later one is an unhide; when mount has returned successfully the nodes
\* not hidden are exactly those of the default set; when a rule
\* application has failed mount has returned an error.
C26_DevfsRules ==
    /\ \A i \in 1..Len(dev.applied) :
          (dev.applied[i].bacts = "DRB_HIDE") <=> (i = 1)
    /\ (dev.pc = "done" /\ dev.res = "ok")
       => \A node \in dev.nodes : (node \notin dev.hidden) <=> InDefaultSet(node)
    /\ dev.failed => dev.pc = "done" /\ dev.res = "err"

\* A devfs with /dev/mem, /dev/fd/0 and /dev/pts/0 was mounted and
\* prepared: mem and fd/0 are hidden, pts/0 is not.
C26_Witness ==
    /\ dev.pc = "done" /\ dev.res = "ok"
    /\ {<<"mem">>, <<"fd", "0">>} \subseteq dev.hidden
    /\ <<"pts", "0">> \in dev.nodes \ dev.hidden

\* ------------------------------------------------------------ C28
\* The call of thread t returns in this step after its spawn has failed.
SpawnFailureReturns(t) ==
    /\ thr[t].op \in {"start", "exec"}
    /\ thr[t].pc # "done"
    /\ thr'[t].pc = "done"
    /\ thr'[t].failed = <<"spawn">>

\* C28: when a start or an exec whose spawn has failed returns, the record
\* of the process, unless it was deleted meanwhile, has the status Stopped
\* and no pid, and the caller gets an error.
C28_SpawnFailure ==
    [][\A t \in Threads :
          SpawnFailureReturns(t) =>
              /\ thr'[t].res = "err"
              /\ \A r \in container_processes'[Key(t)] :
                    r.status = "Stopped" /\ r.pid = 0]_vars

\* ------------------------------------------------------------ C29
\* The callers only create containers, on a fresh host or on one with a
\* created container.
NextCreate ==
    \E t \in Threads :
        \/ CallCreate(t)
        \/ create_check(t)
        \/ create_put(t)
        \/ create_mounts(t)
        \/ create_mount(t)
        \/ create_jail(t)
        \/ create_network(t)

SpecCreate == Init /\ [][NextCreate]_vars

IsPrefix(s, t) == Len(s) <= Len(t) /\ SubSeq(t, 1, Len(s)) = s

\* The steps of a create of bundle b, in the order of the claim.
CreateOrder(b) ==
    <<<<"put">>>>
        \o [i \in 1..Len(BundleMounts(b)) |-> <<"mount", BundleMounts(b)[i]>>]
        \o <<<<"jail">>, <<"network">>>>

\* The orders of steps of the creates of the bundles with a readable config.
CreateOrders == {CreateOrder(b) : b \in Bundles \ {"bad"}}

\* The steps a call has executed, followed by the step that failed.
AttemptedOf(call) ==
    call.trail \o (IF call.failed = <<>> THEN <<>> ELSE <<call.failed>>)

Attempted(t) == AttemptedOf(thr[t])

\* C29: the steps of a create are a prefix of: persist the config, each
\* mount in turn, the jail, the network; the step that fails is the last
\* one and the call returns an error; a create that returns ok has done
\* them all.  Unless a delete was called, the mounts the create has made
\* are mounted, also after a later mount has failed.
C29_CreateOrder ==
    \A t \in Threads :
        thr[t].op = "create" =>
            /\ \E order \in CreateOrders : IsPrefix(Attempted(t), order)
            /\ thr[t].failed # <<>> => thr[t].pc = "done" /\ thr[t].res = "err"
            /\ thr[t].pc = "done" /\ thr[t].res = "ok" =>
                  thr[t].trail \in CreateOrders
            /\ (\A u \in Threads : thr[u].op # "delete") =>
                  \A i \in 1..Len(thr[t].trail) :
                      thr[t].trail[i][1] = "mount" =>
                          IsMounted(thr[t].key, thr[t].trail[i][2])

\* A create of a bundle with two mounts has failed at the second: the first
\* is mounted, there is no jail and no network.
C29_Witness ==
    \E t \in Threads :
        /\ thr[t].op = "create"
        /\ thr[t].pc = "done"
        /\ thr[t].res = "err"
        /\ thr[t].failed = <<"mount", "proc">>
        /\ thr[t].trail = <<<<"put">>, <<"mount", "dev">>>>
        /\ mounted[thr[t].key] = <<"dev">>
        /\ jails[thr[t].key] = {}
        /\ ~network[thr[t].key]

\* ------------------------------------------------------------ C30
\* The delete of thread t returns in this step.
DeleteReturns(t) ==
    /\ thr[t].op = "delete"
    /\ thr[t].pc # "done"
    /\ thr'[t].pc = "done"

\* C30: a delete returns no error, and a delete that has removed the record
\* of the process returns only after the network teardown was attempted,
\* whatever step has failed before.
C30_DeleteTeardown ==
    [][\A t \in Threads :
          DeleteReturns(t) =>
              /\ thr'[t].res = "ok"
              /\ thr'[t].trail # <<>> =>
                    LET steps == AttemptedOf(thr'[t]) IN
                    steps[Len(steps)] = <<"teardown">>]_vars

\* ------------------------------------------------- the env of a process
\* str::split("="): the pieces between every two separators.
RECURSIVE split_eq(_)
split_eq(x) ==
    IF \A i \in 1..Len(x) : x[i] # "=" THEN <<x>>
    ELSE LET i == CHOOSE k \in 1..Len(x) :
                     x[k] = "=" /\ \A j \in 1..(k - 1) : x[j] # "="
         IN  <<SubSeq(x, 1, i - 1)>> \o split_eq(SubSeq(x, i + 1, Len(x)))

\* The closure mapped over the entries (operations.rs:242-246): the first
\* two pieces of the entry, None without a second piece.
decode_entry(x) ==
    LET params == split_eq(x) IN
    IF Len(params) >= 2 THEN {<<params[1], params[2]>>} ELSE {}

\* collect() of the Options into an Option of the Vec: None as soon as one
\* of them is None (operations.rs:247).
collect(entries) ==
    IF \E i \in 1..Len(entries) : decode_entry(entries[i]) = {}
    THEN {}
    ELSE {[i \in 1..Len(entries) |-> CHOOSE p \in decode_entry(entries[i]) : TRUE]}

\* process.env.and_then(..).unwrap_or_else(Vec::new) (operations.rs:238-249).
decode_envs(process_env) ==
    LET decoded == UNION {collect(entries) : entries \in process_env} IN
    IF decoded = {} THEN <<>> ELSE CHOOSE v \in decoded : TRUE

\* Command::env_clear().envs(envs) (operations.rs:270-271): nothing of the
\* environment of the runtime, and for each key the last value given.
command_env(envs) ==
    {envs[i] : i \in {k \in 1..Len(envs) :
                         \A j \in (k + 1)..Len(envs) : envs[j][1] # envs[k][1]}}

\* do_exec from the decoding of the env to the spawn.
do_exec_envs(process_env) ==
    /\ env.pc = "idle"
    /\ LET envs == decode_envs(process_env) IN
       env' = [pc |-> "done", process_env |-> process_env, envs |-> envs,
               child |-> command_env(envs)]
    /\ UNCHANGED env_frame

NextEnv == \E process_env \in ProcessEnvs : do_exec_envs(process_env)

SpecEnv == InitFresh /\ [][NextEnv]_vars

\* An entry split at its first "=": the key before it, the value after it.
SplitAtFirst(x) ==
    LET i == CHOOSE k \in 1..Len(x) :
                 x[k] = "=" /\ \A j \in 1..(k - 1) : x[j] # "="
    IN  <<SubSeq(x, 1, i - 1), SubSeq(x, i + 1, Len(x))>>

HasSeparator(x) == \E i \in 1..Len(x) : x[i] = "="

\* The pairs of the entries of an env that have a separator, in order.
PairsOf(process_env) ==
    IF process_env = {} THEN <<>>
    ELSE LET entries == CHOOSE e \in process_env : TRUE
             kept == SelectSeq(entries, HasSeparator)
         IN  [i \in 1..Len(kept) |-> SplitAtFirst(kept[i])]

\* C31: the pairs handed to the spawned process are those of the entries
\* with a "=", each split at its first "=", and the process inherits no
\* variable of the runtime.
C31_EnvDecoding ==
    env.pc = "done" =>
        /\ env.envs = PairsOf(env.process_env)
        /\ env.child \cap HostEnv = {}

\* ------------------------------------------------------------ C32
\* Thread t takes a step of a do_exec called with the empty exec id.
ExecOfMainSteps(t) ==
    /\ thr[t].op = "exec"
    /\ thr[t].exec_id = MAIN_PROCESS_EXEC_ID
    /\ thr[t].pc # "done"
    /\ thr'[t] # thr[t]

\* C32: a do_exec called with the empty exec id creates no process record
\* and returns an error.
C32_ExecNeedsExecId ==
    [][\A t \in Threads :
          ExecOfMainSteps(t) =>
              /\ container_processes[Key(t)] = {} =>
                    container_processes'[Key(t)] = {}
              /\ thr'[t].pc = "done" => thr'[t].res = "err"]_vars

\* ------------------------------------------------------------ C33
\* The state after create, start and an exec of "e1" on one container: both
\* processes run in the jail, which no longer persists
\* (operations.rs:276, 287-291).
InitRunning ==
    /\ container_config = [c \in Containers |-> {"b1"}]
    /\ container_processes =
           [k \in ProcessKeys |->
               {[status |-> "Running",
                 pid |-> IF k[2] = MAIN_PROCESS_EXEC_ID THEN 1 ELSE 2,
                 jid |-> 1, exit_status |-> {}]}]
    /\ jails = [c \in Containers |-> {[jid |-> 1, persist |-> FALSE]}]
    /\ jidCount = 1
    /\ children = [p \in 1..2 |-> [state |-> "running", jid |-> 1,
                                   signalled |-> FALSE, exit_status |-> {}]]
    /\ mounted = [c \in Containers |-> BundleMounts("b1")]
    /\ network = [c \in Containers |-> TRUE]
    /\ thr = [t \in Threads |-> IdleThread]
    /\ ops = 0
    /\ created = [c \in Containers |-> TRUE]
    /\ NetFresh
    /\ CasFresh
    /\ FetchFresh
    /\ UtilFresh

\* The callers only wait, while the processes exit.
NextWait ==
    \/ \E t \in Threads :
          \/ CallWait(t)
          \/ wait_get(t)
          \/ waitpid(t)
          \/ wait_upd_get(t)
          \/ wait_upd_cas(t)
    \/ Environment

SpecWait == InitRunning /\ [][NextWait]_vars

\* The do_wait of thread t stores its result in this step.
WaitStores(t) ==
    /\ thr[t].op = "wait"
    /\ thr[t].pc = "wait_upd_cas"
    /\ container_processes'[Key(t)] # container_processes[Key(t)]

\* C33: the record a do_wait writes is Stopped and without a pid; written
\* over a Running record it holds the exit status of the process of that
\* record, written over the record of a process already reaped it holds
\* the exit status that record had.
C33_WaitStoresOwnExit ==
    [][\A t \in Threads :
          WaitStores(t) =>
              \A old \in container_processes[Key(t)] :
              \A new \in container_processes'[Key(t)] :
                  /\ new.status = "Stopped"
                  /\ new.pid = 0
                  /\ old.pid # 0 => new.exit_status = children[old.pid].exit_status
                  /\ old.pid = 0 => new.exit_status = old.exit_status]_vars

\* ------------------------------------------------------------ C34
\* Fetcher t takes a step of its fetch.
FetchSteps(t) == fthr[t].pc \notin {"idle", "done"} /\ fthr'[t] # fthr[t]

\* The blobs of the image of digest d: its manifest, config and layers.
BlobsOf(d) == {d, ManifestOf(d).config} \cup ManifestOf(d).layers

\* C34: within a fetch, the manifest is stored by the step before the
\* pulls; a config or layer is stored only after the manifest and before
\* the write of images; images is written only when the manifest, the
\* config and every layer are stored; the step after it is the flush,
\* which writes nothing, and a fetch that has written images returns its
\* digest only from the flush.
C34_FetchOrder ==
    [][\A t \in Fetchers :
          FetchSteps(t) =>
              /\ blobs' # blobs =>
                    IF fthr[t].pc = "fetch_manifest"
                    THEN blobs' = blobs \cup fthr[t].digest
                    ELSE /\ fthr[t].pc = "try_join"
                         /\ fthr[t].digest \subseteq blobs
                         /\ ~fthr[t].wrote_image
              /\ fthr'[t].wrote_image /\ ~fthr[t].wrote_image =>
                    /\ \A d \in fthr[t].digest : BlobsOf(d) \subseteq blobs
                    /\ images'[fthr[t].key] = fthr[t].digest
                    /\ fthr'[t].pc = "flush"
              /\ fthr[t].pc = "flush" =>
                    /\ UNCHANGED <<images, blobs>>
                    /\ fthr'[t].pc = "done"
              /\ (fthr'[t].pc = "done" /\ fthr'[t].res = "ok"
                      /\ fthr'[t].wrote_image) =>
                    fthr[t].pc = "flush"]_vars

\* A fetch has stored the image and returned its digest.
C34_Witness ==
    \E t \in Fetchers :
        /\ fthr[t].pc = "done" /\ fthr[t].res = "ok" /\ fthr[t].wrote_image
        /\ images[fthr[t].key] = fthr[t].out
        /\ \A d \in fthr[t].out : BlobsOf(d) \subseteq blobs

\* ------------------------------------------------------------ C35
\* unpack takes the step of its next layer.
UnpackLayerSteps == unp.pc = "unpack_layer" /\ unp.layers # <<>> /\ unp' # unp

\* What a layer writes: its entries that are not whiteouts, with the
\* directories leading to them.
Produced(layer) == extract(layer, {})

\* What the whiteouts of a layer may remove: the paths at or below the
\* parent of an opaque whiteout, and the path of any other whiteout.
Whited(layer, fs) ==
    UNION {IF file_name(layer[i]) = <<".wh.", ".wh.", ".opq">>
           THEN Below(parent(layer[i]), fs)
           ELSE IF starts_with_wh(file_name(layer[i])) THEN {layer[i]}
                ELSE {} : i \in 1..Len(layer)}

\* Layers of a file, its whiteout and the opaque whiteout of its
\* directory, and the manifests made of them.
OrderPaths ==
    {<<<<"dir">>, name>> :
        name \in {<<"file">>, <<".wh.", "file">>, <<".wh.", ".wh.", ".opq">>}}
OrderLayers == UNION {[1..n -> OrderPaths] : n \in 0..MaxEntries}
OrderLists == UNION {[1..n -> OrderLayers] : n \in 1..MaxLayers}

NextLayers ==
    \/ unp.pc = "idle" /\ \E layers \in OrderLists : unpack(layers)
    \/ unpack_layer

SpecLayers == InitFresh /\ [][NextLayers]_vars

SetupAlone(t) ==
    /\ nthr[t].op = "setup"
    /\ \A u \in NetCallers \ {t} :
          nthr[u].pc \in {"idle", "done"} \/ nthr[u].key # nthr[t].key

\* C36: among setups of different containers, knast0 once created is not
\* created again, a setup takes its bridge address from the pool only
\* while knast0 does not exist, and no setup fails at the creation of the
\* bridge.
C36_BridgeOnce ==
    [][/\ bridge # {} => bridge' = bridge
       /\ \A t \in NetCallers :
             SetupAlone(t) =>
                /\ (/\ nthr[t].pc = "get_address_cas"
                    /\ nthr[t].ret = "bridge"
                    /\ network_heap' # network_heap) => bridge = {}
                /\ (nthr[t].pc = "bridge_create" /\ nthr'[t].pc = "done")
                      => nthr'[t].res # "err"]_vars

\* ------------------------------------------------------------ C37
\* The positions of do_exec after the record was moved to Starting.
AfterStarting ==
    {"retrieve_jail", "spawn", "defer_cleanup", "final_get", "final_cas"}

\* The start or exec of thread t returns in this step, after it has moved
\* the record of its process to Starting.
ReturnsAfterStarting(t) ==
    /\ thr[t].op \in {"start", "exec"}
    /\ thr[t].pc \in AfterStarting
    /\ thr'[t].pc = "done"

\* C37: when a start or an exec that has moved the record of its process
\* to Starting returns, with or without an error, the record is there and
\* its status is Running or Stopped.
C37_NeverLeftStarting ==
    [][\A t \in Threads :
          ReturnsAfterStarting(t) =>
              /\ container_processes'[Key(t)] # {}
              /\ \A r \in container_processes'[Key(t)] :
                    r.status \in {"Running", "Stopped"}]_vars

\* ------------------------------------------------------------ C38
\* Thread t is in a start or an exec that has moved the record of its
\* process to Starting and has not returned.
PastStarting(t) ==
    /\ thr[t].op \in {"start", "exec"}
    /\ thr[t].pc \in AfterStarting

\* A start of a created container has put the record of the main process
\* (operations.rs:229) and read the config (operations.rs:236); its next
\* step is the move of the record to Starting.
InitMidStart ==
    /\ container_config = [c \in Containers |-> {"b1"}]
    /\ container_processes =
           [k \in ProcessKeys |->
               IF k[2] = MAIN_PROCESS_EXEC_ID THEN {NewOciStatus} ELSE {}]
    /\ jails = [c \in Containers |-> {[jid |-> 1, persist |-> TRUE]}]
    /\ jidCount = 1
    /\ children = <<>>
    /\ mounted = [c \in Containers |-> BundleMounts("b1")]
    /\ network = [c \in Containers |-> TRUE]
    /\ thr = [t \in Threads |->
                IF t = 1
                THEN [IdleThread EXCEPT !.op = "start", !.pc = "starting_get",
                                        !.wrote = TRUE, !.seen = "absent"]
                ELSE IdleThread]
    /\ ops = 0
    /\ created = [c \in Containers |-> TRUE]
    /\ NetFresh
    /\ CasFresh
    /\ FetchFresh
    /\ UtilFresh

\* The callers start and delete the container.
NextStartDelete ==
    \E t \in Threads :
        \/ CallStart(t)
        \/ do_start(t)
        \/ new_process(t)
        \/ check_status(t)
        \/ exec_rootfs(t)
        \/ starting_get(t)
        \/ starting_cas(t)
        \/ exec_retrieve_jail(t)
        \/ spawn(t)
        \/ defer_cleanup(t)
        \/ final_get(t)
        \/ final_cas(t)
        \/ CallDelete(t)
        \/ state_get(t)
        \/ state_jail(t)
        \/ delete_process(t)
        \/ delete_mounts(t)
        \/ delete_unmount(t)
        \/ delete_network(t)

SpecStartDelete == InitMidStart /\ [][NextStartDelete]_vars

\* C38: no two calls of start or exec are at the same time past the move
\* of the same process record to Starting, so that no two of them spawn a
\* process for it, and a Running record written by a call holds the pid
\* of a process that call spawned.
C38_OneStartPerRecord ==
    \A t \in Threads : \A u \in Threads \ {t} :
        ~(PastStarting(t) /\ PastStarting(u) /\ Key(t) = Key(u))

\* ------------------------------------------------------------ C39
\* The delete of thread t returns in this step after an unmount or the
\* network teardown has failed.
DeleteFailsPartway(t) ==
    /\ DeleteReturns(t)
    /\ thr'[t].failed # <<>>
    /\ thr'[t].failed[1] \in {"unmount", "teardown"}

\* C39: when a delete returns after one of its unmounts or the network
\* teardown has failed, the record of the process is still stored, so
\* that a later delete passes the status check.
C39_DeleteRetry ==
    [][\A t \in Threads :
          DeleteFailsPartway(t) => container_processes'[Key(t)] # {}]_vars

\* ------------------------------------------------------------ C40
\* The documented use of fetch (fetcher.rs:77-81): one task joins the
\* fetch with the collector of the receiving end, so one thread polls the
\* fetch, then the collector, whenever the task is woken.
join(layers) ==
    /\ chan.pc = "idle"
    /\ chan' = [chan EXCEPT !.pc = "poll_fetch", !.todo = layers]
    /\ UNCHANGED chan_frame

\* The fetch_layer of layer i can go on within this poll of the fetch.
Runnable(i) == chan.todo[i] # <<>> /\ Head(chan.todo[i]) = "now"

\* fetch_layer of layer i sends an update through its clone of the sender
\* with block_on(updates_sub.send(..)) (fetcher.rs:205-208, 217-219): the
\* thread waits until the sender is not parked, puts the message, which
\* parks the sender when the channel then holds more than its buffer,
\* and waits until the sender is flushed, that is not parked.  Only the
\* collector unparks a sender, and the thread that would run it is the
\* one waiting.
fetch_layer(i) ==
    /\ chan.pc = "poll_fetch"
    /\ i \in DOMAIN chan.todo
    /\ Runnable(i)
    /\ IF i \in chan.parked
       THEN chan' = [chan EXCEPT !.pc = "blocked"]
       ELSE LET n == chan.num_messages + 1
                parked == IF n > Buffer THEN chan.parked \cup {i}
                          ELSE chan.parked
            IN  chan' = [chan EXCEPT
                    !.num_messages = n,
                    !.parked = parked,
                    !.todo[i] = Tail(@),
                    !.pc = IF i \in parked THEN "blocked" ELSE @]
    /\ UNCHANGED chan_frame

\* The fetch has nothing more to do in this poll: every fetch_layer has
\* finished or waits for the registry (fetcher.rs:110-128).
fetch_yields ==
    /\ chan.pc = "poll_fetch"
    /\ \A i \in DOMAIN chan.todo : ~Runnable(i)
    /\ chan' = [chan EXCEPT !.pc = "poll_updates"]
    /\ UNCHANGED chan_frame

\* rx.collect (fetcher.rs:79): the collector takes every message of the
\* channel and unparks the senders; it ends, and the join with it, when
\* the fetch has returned and dropped the senders.
updates_fut ==
    /\ chan.pc = "poll_updates"
    /\ chan' = [chan EXCEPT
           !.collected = @ + chan.num_messages,
           !.num_messages = 0,
           !.parked = {},
           !.pc = IF \A i \in DOMAIN chan.todo : chan.todo[i] = <<>>
                  THEN "done" ELSE "pending"]
    /\ UNCHANGED chan_frame

\* The registry answers some of the pulls that wait for it, which wakes
\* the task.
registry_answers ==
    /\ chan.pc = "pending"
    /\ \E answered \in SUBSET {i \in DOMAIN chan.todo : chan.todo[i] # <<>>} :
          /\ answered # {}
          /\ chan' = [chan EXCEPT
                 !.pc = "poll_fetch",
                 !.todo = [i \in DOMAIN chan.todo |->
                              IF i \in answered
                              THEN <<"now">> \o Tail(chan.todo[i])
                              ELSE chan.todo[i]]]
    /\ UNCHANGED chan_frame

NextJoin ==
    \/ chan.pc = "idle" /\ \E layers \in LayerUpdates : join(layers)
    \/ \E i \in 1..MaxLayers : fetch_layer(i)
    \/ fetch_yields
    \/ updates_fut
    \/ registry_answers

\* The thread of the task runs whenever it has a step to take, and the
\* registry answers every request.
SpecJoin == InitFresh /\ [][NextJoin]_vars /\ WF_vars(NextJoin)

\* C40: a fetch that is joined with the collector of its updates returns.
C40_FetchTerminates == (chan.pc = "poll_fetch") ~> (chan.pc = "done")

====
